---- MODULE Spec2Model ----
(***************************************************************************)
(* A model of the DnD M+ sign-up bot (src/dndmplusbot.py).                 *)
(*                                                                         *)
(* The state is the spreadsheet (a list of worksheets, each a title, a     *)
(* header row and data rows), the module-level `worksheet` pointer, the    *)
(* wall clock in America/New_York, and the interaction flows that are      *)
(* suspended at a Discord prompt.  Every gspread call in the source is     *)
(* synchronous, so a handler is atomic between two `await`s that give the  *)
(* event loop to another handler; each action below is one such stretch.   *)
(*                                                                         *)
(* Python values: a str is a tuple of one-character strings, so that       *)
(* split, capitalize and lower are computed and not assumed; None is the   *)
(* one-element tuple None; a number n read from the API is Num(n).  Discord *)
(* user names are never transformed by the code and stay TLA+ strings.     *)
(***************************************************************************)
EXTENDS Integers, Sequences, FiniteSets, Bags, TLC

VARIABLES
    day,          \* today's date in the reference zone, as a day number (day 0 is a Monday)
    hour,         \* the hour of the wall clock, 0..23
    spreadsheet,  \* the worksheets of the spreadsheet, in creation order
    worksheet,    \* the module-level pointer: index of the active worksheet
    flows,        \* the interaction flows suspended at a prompt or a form: a bag of records
    last,         \* what the step just taken did (operation, arguments, return value)
    registered,   \* per user: where the record of their last completed sign-up is
    retired,      \* the worksheet the last successful rotation retired, and its day
    bot,          \* whether on_ready has run, and the task loops that are running
    call,         \* the last call of the resolver or of the profile fetcher, with its result
    guild         \* the guild's categories and voice channels, as the bot's cache has them

vars == <<day, hour, spreadsheet, worksheet, flows, last, registered, retired, bot, call, guild>>

---------------------------------------------------------------------------
(* Python values *)

None == <<"None">>

Num(n) == <<"#", n>>

EmptyStr == <<>>

Letters ==
    << <<"a","A">>, <<"b","B">>, <<"c","C">>, <<"d","D">>, <<"e","E">>, <<"f","F">>,
       <<"g","G">>, <<"h","H">>, <<"i","I">>, <<"j","J">>, <<"k","K">>, <<"l","L">>,
       <<"m","M">>, <<"n","N">>, <<"o","O">>, <<"p","P">>, <<"q","Q">>, <<"r","R">>,
       <<"s","S">>, <<"t","T">>, <<"u","U">>, <<"v","V">>, <<"w","W">>, <<"x","X">>,
       <<"y","Y">>, <<"z","Z">> >>

\* str.lower() on one character
LowerChar(c) ==
    IF \E i \in DOMAIN Letters : Letters[i][2] = c
    THEN Letters[CHOOSE i \in DOMAIN Letters : Letters[i][2] = c][1]
    ELSE c

\* str.upper() on one character
UpperChar(c) ==
    IF \E i \in DOMAIN Letters : Letters[i][1] = c
    THEN Letters[CHOOSE i \in DOMAIN Letters : Letters[i][1] = c][2]
    ELSE c

\* str.lower()
Lower(s) == [i \in DOMAIN s |-> LowerChar(s[i])]

\* str.capitalize(): first character upper-cased, the rest lower-cased
Capitalize(s) == [i \in DOMAIN s |-> IF i = 1 THEN UpperChar(s[i]) ELSE LowerChar(s[i])]

\* str.split(): the maximal runs of non-whitespace characters
RECURSIVE SplitFrom(_, _, _)
SplitFrom(s, i, cur) ==
    IF i > Len(s)
    THEN IF cur = <<>> THEN <<>> ELSE <<cur>>
    ELSE IF s[i] = " "
         THEN (IF cur = <<>> THEN <<>> ELSE <<cur>>) \o SplitFrom(s, i + 1, <<>>)
         ELSE SplitFrom(s, i + 1, Append(cur, s[i]))

Split(s) == SplitFrom(s, 1, <<>>)

\* " ".join(words)
RECURSIVE Join(_)
Join(words) ==
    IF words = <<>> THEN <<>>
    ELSE IF Len(words) = 1 THEN words[1]
    ELSE words[1] \o <<" ">> \o Join(Tail(words))

\* what a call gives its caller: a value, or an exception
Return(v) == [tag |-> "return", value |-> v]

Raise(e) == [tag |-> "raise", exc |-> e]

---------------------------------------------------------------------------
(* The clock *)

\* the last day the clock shows (day 5 is a Saturday)
LastDay == 5

\* the hours at which the clock is observed: one on either side of each of the
\* two hours the code compares against (12 and 18)
Hours == {11, 18}

\* hour of tasks.loop(time=...) of schedule_signup_date_change
TaskHour == 18

\* datetime.weekday(): Monday is 0
Weekday(d) == d % 7

Friday == 4

Saturday == 5

---------------------------------------------------------------------------
(* The spreadsheet *)

\* A title is the tuple of its parts: f"{old_title} - Cutoff {date}" appends
\* the part <<"Cutoff", date>> to old_title's parts.  strftime("%m-%d-%Y") is
\* one-to-one on dates, so the date stands for its text.
BaseTitle(name) == <<name>>

CutoffTitle(old_title, date) == Append(old_title, <<"Cutoff", date>>)

GeneralInfo == BaseTitle("General Info")

RemovedSignups == BaseTitle("Removed Signups")

\* the header rows of the registration sheet and of the removed-signups sheet
SignupHeader == "signup-header"

RemovedHeader == "removed-header"

Sheet(title, header, rows) == [title |-> title, header |-> header, rows |-> rows]

\* spreadsheet.worksheet(title): the first worksheet of that title, 0 if none
\* (gspread raises WorksheetNotFound)
WorksheetByTitle(ss, title) ==
    IF \E i \in DOMAIN ss : ss[i].title = title
    THEN CHOOSE i \in DOMAIN ss : ss[i].title = title /\ \A j \in 1..(i-1) : ss[j].title # title
    ELSE 0


\* a faulty cell: an unset value written as "N/A"
CellOfDefault(v) == IF v = None THEN <<"N","/","A">> ELSE v

\* worksheet.append_row(row): the row is added below the last one; a None
\* cell is written as an empty cell, which reads back as ""
CellOf(v) == IF v = None THEN EmptyStr ELSE v

SignupRow(r) ==
    [ts |-> r.ts, char |-> CellOf(r.char), cls |-> CellOf(r.cls), user |-> r.user,
     realm |-> CellOf(r.realm), role |-> CellOf(r.role), ilvl |-> CellOf(r.ilvl),
     rating |-> CellOf(r.rating), key |-> CellOf(r.key), bracket |-> CellOf(r.bracket),
     blank |-> CellOf(r.blank), notes |-> CellOf(r.notes)]

\* a faulty append: the last row is overwritten in place
append_row_overwrite(ss, ws, row) ==
    [ss EXCEPT ![ws].rows = IF @ = <<>> THEN <<row>> ELSE [@ EXCEPT ![Len(@)] = row]]

append_row(ss, ws, row) == [ss EXCEPT ![ws].rows = Append(@, row)]

\* worksheet.get_all_records(): the data rows below the header, in order
get_all_records(ss, ws) == ss[ws].rows

\* a faulty delete_rows: n taken as the index of a data row
delete_rows_data_index(ss, ws, n) ==
    [ss EXCEPT ![ws].rows = [i \in 1..(Len(@) - 1) |-> IF i < n THEN @[i] ELSE @[i + 1]]]

\* worksheet.delete_rows(n): removes sheet row n; row 1 is the header, so
\* sheet row n is data row n - 1
delete_rows(ss, ws, n) ==
    [ss EXCEPT ![ws].rows = [i \in 1..(Len(@) - 1) |-> IF i < n - 1 THEN @[i] ELSE @[i + 1]]]

\* the number of data rows of all worksheets together
RECURSIVE TotalRows(_)
TotalRows(ss) == IF ss = <<>> THEN 0 ELSE Len(Head(ss).rows) + TotalRows(Tail(ss))

\* the model stops adding rows once the spreadsheet holds this many
MaxRows == 2

---------------------------------------------------------------------------
(* get_current_removal_sheet *)

\* a faulty window: Friday 18:00 itself left out
InCutoffWindowLate(d, h) ==
    \/ Weekday(d) = Friday /\ h > 18
    \/ Weekday(d) = Saturday /\ h < 12

InCutoffWindow(d, h) ==
    \/ Weekday(d) = Friday /\ h >= 18
    \/ Weekday(d) = Saturday /\ h < 12

get_current_removal_sheet(d, h, ss, ws) ==
    IF InCutoffWindow(d, h)
    THEN LET cutoff_date == IF Weekday(d) = Friday THEN d + 1 ELSE d
             found == WorksheetByTitle(ss, CutoffTitle(GeneralInfo, cutoff_date))
         IN  IF found # 0 THEN found ELSE ws
    ELSE ws

---------------------------------------------------------------------------
(* check_user_registration and remove_registration *)

NoRecord == [none |-> TRUE]

\* a faulty lookup: the first record, whoever owns it
check_user_registration_any(ss, ws, discord_name) ==
    LET records == get_all_records(ss, ws)
    IN  IF records = <<>> THEN NoRecord ELSE records[1]

\* the first record of the active worksheet whose "Discord User" is discord_name
check_user_registration(ss, ws, discord_name) ==
    LET records == get_all_records(ss, ws)
        hits == {i \in DOMAIN records : records[i].user = discord_name}
    IN  IF hits = {} THEN NoRecord
        ELSE records[CHOOSE i \in hits : \A j \in hits : i <= j]

\* where the gspread calls of remove_registration may raise
RemoveFailures == {"none", "append", "delete"}

\* of the timestamp strftime("%m/%d/%Y %H:%M:%S") the model keeps the date
Timestamp(d, h) == <<"date", d>>

RemovedRow(d, h, record) ==
    [ts |-> Timestamp(d, h), char |-> record.char, cls |-> record.cls, user |-> record.user,
     realm |-> record.realm, role |-> record.role]

\* a faulty remove_registration: the record is matched on the user alone
remove_registration_by_user(d, h, ss, ws, character_name, realm, discord_name, fail) ==
    LET active_sheet == get_current_removal_sheet(d, h, ss, ws)
        records == get_all_records(ss, active_sheet)
        removed_sheet == WorksheetByTitle(ss, RemovedSignups)
        hits == {i \in DOMAIN records : records[i].user = discord_name}
        first == CHOOSE i \in hits : \A j \in hits : i <= j
        index == first - 1
        copied == append_row(ss, removed_sheet, RemovedRow(d, h, records[first]))
    IN  IF hits = {}
        THEN [ss |-> ss, ret |-> FALSE, src |-> active_sheet, matched |-> FALSE]
        ELSE IF fail = "append"
        THEN [ss |-> ss, ret |-> FALSE, src |-> active_sheet, matched |-> TRUE]
        ELSE IF fail = "delete"
        THEN [ss |-> copied, ret |-> FALSE, src |-> active_sheet, matched |-> TRUE]
        ELSE [ss |-> delete_rows(copied, active_sheet, index + 2), ret |-> TRUE,
              src |-> active_sheet, matched |-> TRUE]

\* a faulty remove_registration: the row is deleted before it is copied
remove_registration_delete_first(d, h, ss, ws, character_name, realm, discord_name, fail) ==
    LET active_sheet == get_current_removal_sheet(d, h, ss, ws)
        records == get_all_records(ss, active_sheet)
        removed_sheet == WorksheetByTitle(ss, RemovedSignups)
        hits == {i \in DOMAIN records :
                    /\ records[i].char = character_name
                    /\ records[i].realm = realm
                    /\ records[i].user = discord_name}
        first == CHOOSE i \in hits : \A j \in hits : i <= j
        index == first - 1
        deleted == delete_rows(ss, active_sheet, index + 2)
    IN  IF hits = {}
        THEN [ss |-> ss, ret |-> FALSE, src |-> active_sheet, matched |-> FALSE]
        ELSE IF fail = "delete"
        THEN [ss |-> ss, ret |-> FALSE, src |-> active_sheet, matched |-> TRUE]
        ELSE IF fail = "append"
        THEN [ss |-> deleted, ret |-> FALSE, src |-> active_sheet, matched |-> TRUE]
        ELSE [ss |-> append_row(deleted, removed_sheet, RemovedRow(d, h, records[first])),
              ret |-> TRUE, src |-> active_sheet, matched |-> TRUE]

\* a faulty remove_registration: with no matching row it archives the record
\* it was called for and reports the removal
remove_registration_unchecked(d, h, ss, ws, character_name, realm, discord_name, fail) ==
    LET active_sheet == get_current_removal_sheet(d, h, ss, ws)
        records == get_all_records(ss, active_sheet)
        removed_sheet == WorksheetByTitle(ss, RemovedSignups)
        hits == {i \in DOMAIN records :
                    /\ records[i].char = character_name
                    /\ records[i].realm = realm
                    /\ records[i].user = discord_name}
        first == CHOOSE i \in hits : \A j \in hits : i <= j
        index == first - 1
        copied == append_row(ss, removed_sheet, RemovedRow(d, h, records[first]))
        called_for == [char |-> character_name, cls |-> EmptyStr, user |-> discord_name,
                       realm |-> realm, role |-> EmptyStr]
    IN  IF hits = {}
        THEN [ss |-> append_row(ss, removed_sheet, RemovedRow(d, h, called_for)),
              ret |-> TRUE, src |-> active_sheet, matched |-> FALSE]
        ELSE IF fail = "append"
        THEN [ss |-> ss, ret |-> FALSE, src |-> active_sheet, matched |-> TRUE]
        ELSE IF fail = "delete"
        THEN [ss |-> copied, ret |-> FALSE, src |-> active_sheet, matched |-> TRUE]
        ELSE [ss |-> delete_rows(copied, active_sheet, index + 2), ret |-> TRUE,
              src |-> active_sheet, matched |-> TRUE]

\* a faulty remove_registration: another removal deletes the first row of the
\* searched worksheet between the scan and the delete-by-index
remove_registration_interleaved(d, h, ss, ws, character_name, realm, discord_name, fail) ==
    LET active_sheet == get_current_removal_sheet(d, h, ss, ws)
        records == get_all_records(ss, active_sheet)
        removed_sheet == WorksheetByTitle(ss, RemovedSignups)
        hits == {i \in DOMAIN records :
                    /\ records[i].char = character_name
                    /\ records[i].realm = realm
                    /\ records[i].user = discord_name}
        first == CHOOSE i \in hits : \A j \in hits : i <= j
        index == first - 1
        copied == append_row(ss, removed_sheet, RemovedRow(d, h, records[first]))
        between == IF first > 1 /\ Len(records) > 2
                   THEN delete_rows(copied, active_sheet, 2) ELSE copied
    IN  IF hits = {}
        THEN [ss |-> ss, ret |-> FALSE, src |-> active_sheet, matched |-> FALSE]
        ELSE IF fail = "append"
        THEN [ss |-> ss, ret |-> FALSE, src |-> active_sheet, matched |-> TRUE]
        ELSE IF fail = "delete"
        THEN [ss |-> copied, ret |-> FALSE, src |-> active_sheet, matched |-> TRUE]
        ELSE [ss |-> delete_rows(between, active_sheet, index + 2), ret |-> TRUE,
              src |-> active_sheet, matched |-> TRUE]

\* the result of remove_registration: the spreadsheet afterwards, the return
\* value, the worksheet searched and whether a record matched
remove_registration(d, h, ss, ws, character_name, realm, discord_name, fail) ==
    LET active_sheet == get_current_removal_sheet(d, h, ss, ws)
        records == get_all_records(ss, active_sheet)
        removed_sheet == WorksheetByTitle(ss, RemovedSignups)
        hits == {i \in DOMAIN records :
                    /\ records[i].char = character_name
                    /\ records[i].realm = realm
                    /\ records[i].user = discord_name}
        first == CHOOSE i \in hits : \A j \in hits : i <= j
        index == first - 1
        copied == append_row(ss, removed_sheet, RemovedRow(d, h, records[first]))
    IN  IF hits = {}
        THEN [ss |-> ss, ret |-> FALSE, src |-> active_sheet, matched |-> FALSE]
        ELSE IF fail = "append"
        THEN [ss |-> ss, ret |-> FALSE, src |-> active_sheet, matched |-> TRUE]
        ELSE IF fail = "delete"
        THEN [ss |-> copied, ret |-> FALSE, src |-> active_sheet, matched |-> TRUE]
        ELSE [ss |-> delete_rows(copied, active_sheet, index + 2), ret |-> TRUE,
              src |-> active_sheet, matched |-> TRUE]

---------------------------------------------------------------------------
(* schedule_signup_date_change *)

\* where the gspread calls of the rotation may raise
RotateFailures == {"none", "rename", "create", "header"}

NoHeader == "no-header"

\* a faulty rotation: the suffix carries the day of the rotation
schedule_signup_date_change_same_day(d, ss, ws, fail) ==
    IF Weekday(d) = Friday
    THEN LET old_title == ss[ws].title
             new_title == CutoffTitle(old_title, d)
             renamed == [ss EXCEPT ![ws].title = new_title]
             created == Append(renamed, Sheet(GeneralInfo, renamed[ws].header, <<>>))
         IN  IF fail # "none" THEN [ss |-> ss, ws |-> ws, done |-> FALSE]
             ELSE [ss |-> created, ws |-> Len(created), done |-> TRUE]
    ELSE [ss |-> ss, ws |-> ws, done |-> FALSE]

\* a faulty rotation: the day of the week is not looked at
schedule_signup_date_change_any_day(d, ss, ws, fail) ==
    LET old_title == ss[ws].title
        new_title == CutoffTitle(old_title, d + 1)
        renamed == [ss EXCEPT ![ws].title = new_title]
        created == Append(renamed, Sheet(GeneralInfo, renamed[ws].header, <<>>))
    IN  IF fail # "none" THEN [ss |-> ss, ws |-> ws, done |-> FALSE]
        ELSE [ss |-> created, ws |-> Len(created), done |-> TRUE]

\* the result of the task body: the spreadsheet and the pointer afterwards,
\* and whether the rotation completed
schedule_signup_date_change(d, ss, ws, fail) ==
    IF Weekday(d) = Friday
    THEN LET cutoff_date == d + 1
             old_title == ss[ws].title
             new_title == CutoffTitle(old_title, cutoff_date)
             renamed == [ss EXCEPT ![ws].title = new_title]
             header_row == renamed[ws].header
             created == Append(renamed, Sheet(GeneralInfo, NoHeader, <<>>))
             new_worksheet == Len(created)
             filled == [created EXCEPT ![new_worksheet].header = header_row]
         IN  IF fail = "rename" \/ WorksheetByTitle(ss, new_title) # 0
             THEN [ss |-> ss, ws |-> ws, done |-> FALSE]
             ELSE IF fail = "create" \/ WorksheetByTitle(renamed, GeneralInfo) # 0
             THEN [ss |-> renamed, ws |-> ws, done |-> FALSE]
             ELSE IF fail = "header"
             THEN [ss |-> created, ws |-> ws, done |-> FALSE]
             ELSE [ss |-> filled, ws |-> new_worksheet, done |-> TRUE]
    ELSE [ss |-> ss, ws |-> ws, done |-> FALSE]


---------------------------------------------------------------------------
(* sanitize_realm, get_access_token, get_character_data *)

Stormrage == <<"S","t","o","r","m","r","a","g","e">>

Area52 == <<"A","r","e","a"," ","5","2">>

\* the reference table of server_lookup.py: display name -> slug
server_lookup ==
    (Stormrage :> <<"s","t","o","r","m","r","a","g","e">>)
    @@ (Area52 :> <<"a","r","e","a","-","5","2">>)

\* " ".join(word.capitalize() for word in realm_name.split())
Standardize(realm_name) ==
    LET words == Split(realm_name)
    IN  Join([i \in DOMAIN words |-> Capitalize(words[i])])

\* the confidence threshold of the fuzzy match
Threshold == 80

\* a faulty resolver: the fuzzy matcher is asked before the table is looked up
sanitize_realm_fuzzy_first(realm_name, fz) ==
    IF realm_name = None
    THEN Raise("AttributeError")
    ELSE LET standardized_realm == Standardize(realm_name)
         IN  IF fz.tag = "raise"
             THEN Return(<<None, None>>)
             ELSE IF fz.score > Threshold
             THEN Return(<<server_lookup[fz.best_match], fz.best_match>>)
             ELSE IF standardized_realm \in DOMAIN server_lookup
             THEN Return(<<server_lookup[standardized_realm], standardized_realm>>)
             ELSE Return(None)

\* realm_name is the input; fz is what process.extractOne answers if asked:
\* [best_match, score], or an exception
sanitize_realm(realm_name, fz) ==
    IF realm_name = None
    THEN Raise("AttributeError")
    ELSE LET standardized_realm == Standardize(realm_name)
         IN  IF standardized_realm \in DOMAIN server_lookup
             THEN Return(<<server_lookup[standardized_realm], standardized_realm>>)
             ELSE IF fz.tag = "raise"
             THEN Return(<<None, None>>)
             ELSE IF fz.score > Threshold
             THEN Return(<<server_lookup[fz.best_match], fz.best_match>>)
             ELSE Return(None)

\* the answers of process.extractOne the model draws from: any key of the
\* table as best match, with a score on either side of the threshold
Scores == {Threshold, Threshold + 1}

FuzzyMiss == [tag |-> "return", best_match |-> Stormrage, score |-> Threshold]

FuzzyAnswers ==
    {[tag |-> "return", best_match |-> k, score |-> sc] : k \in DOMAIN server_lookup, sc \in Scores}

\* what the token endpoint does
TokenResponses == {"ok", "http_error", "transport_error", "timeout", "no_token"}

AccessToken == <<"t","o","k">>

\* requests.post raises on a transport error or a timeout, raise_for_status
\* on a status that is not 2xx: both requests.RequestException, which is
\* caught.  A JSON body without "access_token" raises KeyError, which is not.
get_access_token(resp) ==
    IF resp = "ok" THEN Return(AccessToken)
    ELSE IF resp = "no_token" THEN Raise("KeyError")
    ELSE Return(None)

\* a faulty placeholder: the fields stay unset
NoPlaceholder == None

NA == <<"N","/","A">>

Mage == <<"M","a","g","e">>

\* what requests.get does with one of the two profile endpoints: it returns a
\* response with a status code and a body, or raises (no connection, timeout)
ProfileFound == [raised |-> FALSE, status |-> 200, cls |-> Mage, ilvl |-> Num(480)]

ProfileStatus(status) == [raised |-> FALSE, status |-> status, cls |-> None, ilvl |-> None]

ProfileRaises == [raised |-> TRUE, exc |-> "ConnectionError"]

CharacterResponses ==
    {ProfileFound, ProfileStatus(204), ProfileStatus(404), ProfileStatus(500), ProfileRaises}

\* the value of a key of the JSON body, and a key the body does not have
Present(value) == [present |-> TRUE, value |-> value]

Absent == [present |-> FALSE, value |-> <<>>]

MythicFound ==
    [raised |-> FALSE, status |-> 200, rating |-> Num(2500), best_runs |-> Present(<<10, 12>>)]

MythicStatus(status) ==
    [raised |-> FALSE, status |-> status, rating |-> None, best_runs |-> Absent]

MythicRaises == [raised |-> TRUE, exc |-> "Timeout"]

\* the "best_runs" of the bodies the model draws from, each run standing for
\* its "keystone_level": in either order, equal, single, none, and no such key
BestRunsInputs ==
    {Present(runs) : runs \in {<<10, 12>>, <<12, 10>>, <<12, 12>>, <<7>>, <<2, 15, 9>>, <<>>}}
        \cup {Absent}

MythicResponses ==
    {[MythicFound EXCEPT !.best_runs = runs] : runs \in BestRunsInputs}
        \cup {MythicStatus(204), MythicStatus(404), MythicStatus(500), MythicRaises}

\* mythic_data.get("best_runs", {})
BestRuns(mythic_data) ==
    IF mythic_data.best_runs.present THEN mythic_data.best_runs.value ELSE <<>>

\* a faulty maximum: the level of the first run
MaxOfFirst(runs) == runs[1]

\* max(run.get("keystone_level", 0) for run in best_runs)
RECURSIVE MaxOf(_)
MaxOf(runs) ==
    IF Len(runs) = 1 THEN runs[1]
    ELSE LET m == MaxOf(Tail(runs)) IN IF runs[1] >= m THEN runs[1] ELSE m

\* a faulty fetch: both endpoints are requested before either status is read
get_character_data_both_requested(realm, access_token, fz, response, mythic_response) ==
    LET resolved == sanitize_realm(realm, fz)
    IN  IF resolved.tag = "raise" THEN resolved
        ELSE IF resolved.value = None THEN Raise("TypeError")
        ELSE LET sanitized_realm == resolved.value[1]
                 correct_realm_name == resolved.value[2]
             IN  IF sanitized_realm = None
                 THEN Return(<<None, None, None, None, None>>)
                 ELSE IF response.raised THEN Raise(response.exc)
                 ELSE IF mythic_response.raised THEN Raise(mythic_response.exc)
                 ELSE IF response.status = 200 /\ mythic_response.status = 200
                 THEN Return(<<response.cls, response.ilvl, mythic_response.rating,
                               IF BestRuns(mythic_response) # <<>>
                               THEN Num(MaxOf(BestRuns(mythic_response))) ELSE NA,
                               correct_realm_name>>)
                 ELSE Return(<<None, None, None, None, correct_realm_name>>)

\* response and mythic_response are what requests.get does with the character
\* URL and with the mythic profile URL if it is asked
get_character_data(realm, access_token, fz, response, mythic_response) ==
    LET resolved == sanitize_realm(realm, fz)
    IN  IF resolved.tag = "raise" THEN resolved
        ELSE IF resolved.value = None THEN Raise("TypeError")
        ELSE LET sanitized_realm == resolved.value[1]
                 correct_realm_name == resolved.value[2]
             IN  IF sanitized_realm = None
                 THEN Return(<<None, None, None, None, None>>)
                 ELSE IF response.raised THEN Raise(response.exc)
                 ELSE IF response.status = 200
                 THEN IF mythic_response.raised THEN Raise(mythic_response.exc)
                      ELSE IF mythic_response.status = 200
                      THEN Return(<<response.cls, response.ilvl, mythic_response.rating,
                                    IF BestRuns(mythic_response) # <<>>
                                    THEN Num(MaxOf(BestRuns(mythic_response))) ELSE NA,
                                    correct_realm_name>>)
                      ELSE Return(<<None, None, None, None, correct_realm_name>>)
                 ELSE Return(<<None, None, None, None, correct_realm_name>>)

---------------------------------------------------------------------------
(* ChannelsGroup: the voice channels of the guild *)

Digits == <<"0","1","2","3","4","5","6","7","8","9">>

\* str(i) of the f-string, for i >= 0
RECURSIVE Str(_)
Str(i) == IF i < 10 THEN <<Digits[i + 1]>> ELSE Append(Str(i \div 10), Digits[(i % 10) + 1])

\* the value of a word of decimal digits
RECURSIVE DecimalValue(_)
DecimalValue(s) ==
    IF s = <<>> THEN 0
    ELSE DecimalValue(SubSeq(s, 1, Len(s) - 1)) * 10
             + (CHOOSE i \in DOMAIN Digits : Digits[i] = s[Len(s)]) - 1

\* int(s) for a word of a channel name: its value if the word is made of
\* decimal digits, ValueError otherwise
int(s) ==
    IF s # <<>> /\ \A i \in DOMAIN s : \E d \in DOMAIN Digits : Digits[d] = s[i]
    THEN Return(DecimalValue(s))
    ELSE Raise("ValueError")

MythicPlus == <<"M","y","t","h","i","c"," ","P","l","u","s"," ">>

\* f"Mythic Plus {i}"
ChannelName(i) == MythicPlus \o Str(i)

\* category names are compared and never transformed: they stay TLA+ strings
KeyEvent == "Key Event"

AllowedRoles == {"Mythic+ Leader", "Raid Leader", "Moderator", "Admin"}

\* the permission check of both commands
Permitted(user) == (\E role \in user.roles : role \in AllowedRoles) \/ user.is_owner

VoiceChannel(name, category) == [name |-> name, category |-> category]

\* a guild without categories and voice channels
NoGuild == [categories |-> {}, voice_channels |-> {}]

\* ChannelsGroup.add: the guild afterwards and the answer (the message and
\* the number of channels it names).  The calls
\* create_voice_channel for the numbers up to `upto` succeed, the next one
\* raises.
add(g, user, number, upto) ==
    IF ~Permitted(user)
    THEN [guild |-> g, answer |-> [msg |-> "no permission", count |-> 0]]
    ELSE IF number <= 10
    THEN [guild |-> g, answer |-> [msg |-> "number must be greater than 10", count |-> 0]]
    ELSE LET missing == {i \in 11..number :
                            ~\E ch \in g.voice_channels : ch.name = ChannelName(i)}
             created == {i \in missing : i <= upto}
         IN  [guild |-> [categories |-> g.categories \cup {KeyEvent},
                         voice_channels |-> g.voice_channels \cup
                             {VoiceChannel(ChannelName(i), KeyEvent) : i \in created}],
              answer |-> IF created = missing
                         THEN [msg |-> "created", count |-> Cardinality(created)]
                         ELSE [msg |-> "raised", count |-> Cardinality(created)]]

\* a faulty bound: channel 10 is taken for a temporary one
RemovableFromTen(suffix) == suffix >= 10

\* the channels remove deletes: those numbered 11 and up
Removable(suffix) == suffix >= 11

\* ChannelsGroup.remove: the guild afterwards and the answer.  With `fail`
\* the first channel.delete() raises.
remove(g, user, fail) ==
    IF ~Permitted(user)
    THEN [guild |-> g, answer |-> [msg |-> "no permission", count |-> 0]]
    ELSE IF KeyEvent \notin g.categories
    THEN [guild |-> g, answer |-> [msg |-> "no category", count |-> 0]]
    ELSE LET deleted == {ch \in g.voice_channels :
                            /\ ch.category = KeyEvent
                            /\ Len(ch.name) >= Len(MythicPlus)
                            /\ SubSeq(ch.name, 1, Len(MythicPlus)) = MythicPlus
                            /\ LET words == Split(ch.name)
                                   suffix == int(words[Len(words)])
                               IN  suffix.tag = "return" /\ Removable(suffix.value)}
         IN  IF fail /\ deleted # {}
             THEN [guild |-> g, answer |-> [msg |-> "raised", count |-> 0]]
             ELSE [guild |-> [g EXCEPT !.voice_channels = @ \ deleted],
                   answer |-> [msg |-> "removed", count |-> Cardinality(deleted)]]

---------------------------------------------------------------------------
(* The interaction flows *)

Users == {"alice", "bob"}

\* the number of prompts and forms that are open at the same time
MaxFlows == 2

DPS == <<"D","P","S">>

Healer == <<"H","e","a","l","e","r">>

Tank == <<"T","a","n","k">>

Roles == {DPS, Healer, Tank}

Heroics == <<"H","e","r","o","i","c","s">>

KeyRanges == {Heroics}

\* what the users type into the form
Jaina == <<"j","a","i","n","a">>

Thrall == <<"T","h","r","a","l","l">>

CharacterInputs == {Jaina, Thrall}

RealmInputs == { <<"S","t","o","r","m","r","a","g","e">>, <<"x","y","z">> }

\* a flow as it starts; the fields are the attributes the views and the form keep
NewFlow ==
    [pc |-> "New", user |-> "", existing_record |-> NoRecord, character_info |-> NoRecord,
     selected_role |-> None, selected_key_range |-> None, checked |-> FALSE, fetched |-> None]

Open(fl) == flows (+) SetToBag({fl})

Close(fl) == flows (-) SetToBag({fl})

Replace(fl, new) == Close(fl) (+) SetToBag({new})

HasRoom == BagCardinality(flows) < MaxFlows

\* `last` records a step that calls the store or ends a flow with a message:
\* the operation, its user, the character and realm it was called with, the
\* store call that raised, its return value, whether a record was found (or
\* matched), the worksheet it read or wrote, and the final message sent
Last(op, user, key, fail, ok, found, src, msg) ==
    [op |-> op, user |-> user, key |-> key, fail |-> fail, ok |-> ok, found |-> found,
     src |-> src, msg |-> msg]

\* every other step
Quiet == Last("ui", "", <<>>, "none", FALSE, FALSE, 0, "")

\* the two task loops of the module
WeeklyTask == "schedule_signup_date_change"

NightlyTask == "nightly_character_update"

\* the bot as the module leaves it: on_ready not yet run, no loop running
BotLoaded == [ready |-> FALSE, running |-> {}]

\* the bot with the weekly loop running, as schedule_signup_date_change.start()
\* leaves it: the store and workflow specifications start here, so that the
\* rotation runs at its hour
BotRotating == [ready |-> TRUE, running |-> {WeeklyTask}]

\* no call of the resolver or of the profile fetcher yet
NoCall == [fn |-> "none", args |-> <<>>, result |-> <<>>]

\* the first day of the clock is a Friday, the hour the first one observed
FirstHour == CHOOSE h \in Hours : \A k \in Hours : h <= k

Init ==
    /\ day = Friday
    /\ hour = FirstHour
    /\ \E title \in {GeneralInfo, BaseTitle("Signups")} :
          spreadsheet = << Sheet(RemovedSignups, RemovedHeader, <<>>),
                           Sheet(title, SignupHeader, <<>>) >>
    /\ worksheet = 2
    /\ flows = EmptyBag
    /\ last = Quiet
    /\ registered = [u \in Users |-> "no"]
    /\ retired = [id |-> 0, day |-> 0]
    /\ bot = BotRotating
    /\ call = NoCall
    /\ guild = NoGuild

\* the next observed time: <<day, hour>>
NextTime ==
    IF \E h \in Hours : h > hour
    THEN <<day, CHOOSE h \in Hours : h > hour /\ \A k \in Hours : k > hour => h <= k>>
    ELSE <<day + 1, FirstHour>>

\* the clock moves to the next observed time, when no task is scheduled for it
Tick ==
    /\ NextTime[1] <= LastDay
    /\ NextTime[2] = TaskHour => WeeklyTask \notin bot.running
    /\ day' = NextTime[1]
    /\ hour' = NextTime[2]
    /\ last' = Quiet
    /\ UNCHANGED <<spreadsheet, worksheet, flows, registered, retired, bot, call, guild>>

\* the clock reaches 18:00 and the task loop runs the body of
\* schedule_signup_date_change.  (on_ready leaves the start of the loop
\* commented out; the action is the run of the body by a started loop.)
Rotate(fail) ==
    /\ WeeklyTask \in bot.running
    /\ NextTime[1] <= LastDay
    /\ NextTime[2] = TaskHour
    /\ day' = NextTime[1]
    /\ hour' = NextTime[2]
    /\ LET r == schedule_signup_date_change(day', spreadsheet, worksheet, fail)
       IN  /\ spreadsheet' = r.ss
           /\ worksheet' = r.ws
           /\ last' = Last("rotate", "", <<>>, fail, r.done, FALSE, worksheet, "")
           /\ retired' = IF r.done THEN [id |-> worksheet, day |-> day'] ELSE retired
           /\ registered' = IF r.done
                            THEN [u \in Users |->
                                     IF registered[u] = "active" THEN "retired" ELSE registered[u]]
                            ELSE registered
    /\ UNCHANGED <<flows, bot, call, guild>>

\* a faulty branch: the registration starts whatever the lookup found
SignupBranchAlwaysStart(existing_record) == "StartView"

\* the branch of signup_button on the record found
SignupBranch(existing_record) ==
    IF existing_record # NoRecord THEN "EditConfirm" ELSE "StartView"

\* DndOptionsView.signup_button
signup_button(u) ==
    /\ HasRoom
    /\ LET existing_record == check_user_registration(spreadsheet, worksheet, u)
           branch == SignupBranch(existing_record)
       IN  /\ flows' = Open([NewFlow EXCEPT
                                !.pc = branch, !.user = u,
                                !.existing_record =
                                    IF branch = "EditConfirm" THEN existing_record ELSE NoRecord,
                                !.checked = (existing_record = NoRecord)])
           /\ last' = Last("signup_button", u, <<>>, "none", TRUE, existing_record # NoRecord,
                           worksheet, branch)
    /\ UNCHANGED <<day, hour, spreadsheet, worksheet, registered, retired, bot, call, guild>>

\* the call of remove_registration and what it does to the store
Removal(op, character_name, realm, discord_name, fail, okmsg) ==
    LET r == remove_registration(day, hour, spreadsheet, worksheet,
                                 character_name, realm, discord_name, fail)
    IN  /\ fail # "none" => r.matched
        /\ fail = "delete" => TotalRows(spreadsheet) < MaxRows
        /\ spreadsheet' = r.ss
        /\ last' = Last(op, discord_name, <<character_name, realm>>, fail, r.ret, r.matched,
                        r.src, IF r.ret THEN okmsg ELSE "error removing")
        /\ registered' = IF r.ret THEN [registered EXCEPT ![discord_name] = "no"]
                         ELSE registered

\* the body shared by the Yes buttons of ConfirmEditView and ConfirmRemoveView
ConfirmYes(fl, pc, op, okmsg) ==
    /\ fl.pc = pc
    /\ \E fail \in RemoveFailures :
          Removal(op, fl.existing_record.char, fl.existing_record.realm, fl.user, fail, okmsg)
    /\ flows' = Close(fl)
    /\ UNCHANGED <<day, hour, worksheet, retired, bot, call, guild>>

\* ConfirmEditView.yes_button
edit_yes_button(fl) == ConfirmYes(fl, "EditConfirm", "edit_yes", "removed, start again")

\* ConfirmEditView.no_button
edit_no_button(fl) ==
    /\ fl.pc = "EditConfirm"
    /\ flows' = Close(fl)
    /\ last' = Last("edit_no", fl.user, <<>>, "none", TRUE, FALSE, 0, "thanks for registering")
    /\ UNCHANGED <<day, hour, spreadsheet, worksheet, registered, retired, bot, call, guild>>

\* DndOptionsView.remove_button
remove_button(u) ==
    /\ HasRoom
    /\ LET existing_record == check_user_registration(spreadsheet, worksheet, u)
       IN  IF existing_record # NoRecord
           THEN /\ flows' = Open([NewFlow EXCEPT !.pc = "RemoveConfirm", !.user = u,
                                                  !.existing_record = existing_record])
                /\ last' = Quiet
           ELSE /\ flows' = flows
                /\ last' = Last("remove_button", u, <<>>, "none", TRUE, FALSE, worksheet,
                                "no registration found")
    /\ UNCHANGED <<day, hour, spreadsheet, worksheet, registered, retired, bot, call, guild>>

\* ConfirmRemoveView.yes_button
remove_yes_button(fl) == ConfirmYes(fl, "RemoveConfirm", "remove_yes", "removed")

\* a faulty No: the message is sent and the prompt stays
remove_no_button_stays(fl) ==
    /\ fl.pc = "RemoveConfirm"
    /\ flows' = flows
    /\ last' = Last("remove_no", fl.user, <<>>, "none", TRUE, FALSE, 0, "not removed")
    /\ UNCHANGED <<day, hour, spreadsheet, worksheet, registered, retired, bot, call, guild>>

\* ConfirmRemoveView.no_button
remove_no_button(fl) ==
    /\ fl.pc = "RemoveConfirm"
    /\ flows' = Close(fl)
    /\ last' = Last("remove_no", fl.user, <<>>, "none", TRUE, FALSE, 0, "not removed")
    /\ UNCHANGED <<day, hour, spreadsheet, worksheet, registered, retired, bot, call, guild>>

\* StartRegistrationView.start_registration_button: the form opens; the view
\* stays on screen (keep) until start_registration deletes it
start_registration_button(fl, keep) ==
    /\ fl.pc = "StartView"
    /\ keep => HasRoom
    /\ flows' = IF keep THEN Open([fl EXCEPT !.pc = "Modal"])
                ELSE Replace(fl, [fl EXCEPT !.pc = "Modal"])
    /\ last' = Quiet
    /\ UNCHANGED <<day, hour, spreadsheet, worksheet, registered, retired, bot, call, guild>>

\* a prompt or form the user never answers: the view times out, the message
\* is deleted, the form is dismissed
abandon(fl) ==
    /\ fl.pc \in {"EditConfirm", "RemoveConfirm", "StartView", "Modal"}
    /\ flows' = Close(fl)
    /\ last' = Quiet
    /\ UNCHANGED <<day, hour, spreadsheet, worksheet, registered, retired, bot, call, guild>>

\* RegistrationModal.on_submit up to the role prompt: character_info, or the
\* exception that ends the handler
CharacterInfo(d, h, u, character_name, realm, special_requests, token, fz1, fz2, response, mythic_response) ==
    LET first == sanitize_realm(Lower(realm), fz1)
    IN  IF first.tag = "raise" THEN first
        ELSE IF first.value = None THEN Raise("TypeError")
        ELSE LET sanitized_realm == first.value[1]
                 character_name_cap == Capitalize(character_name)
                 token_result == get_access_token(token)
                 access_token == token_result.value
                 data == get_character_data(sanitized_realm, access_token, fz2,
                                            response, mythic_response)
             IN  IF token_result.tag = "raise" THEN token_result
                 ELSE IF data.tag = "raise" THEN data
                 ELSE LET unavailable == data.value[1] = None
                      IN  Return([character_name |-> character_name_cap,
                                  realm |-> data.value[5],
                                  character_class |-> IF unavailable THEN NA ELSE data.value[1],
                                  item_level |-> IF unavailable THEN NA ELSE data.value[2],
                                  mythic_plus_rating |-> IF unavailable THEN NA ELSE data.value[3],
                                  highest_key |-> IF unavailable THEN NA ELSE data.value[4],
                                  submission_time |-> Timestamp(d, h),
                                  discord_user |-> u,
                                  special_requests |-> special_requests])

\* what on_submit gets from get_character_data, before it replaces anything
FetchedProfile(realm, token, fz1, fz2, response, mythic_response) ==
    LET first == sanitize_realm(Lower(realm), fz1)
        token_result == get_access_token(token)
    IN  IF first.tag = "raise" THEN first
        ELSE IF first.value = None THEN Raise("TypeError")
        ELSE IF token_result.tag = "raise" THEN token_result
        ELSE get_character_data(first.value[1], token_result.value, fz2,
                                response, mythic_response)

\* RegistrationModal.on_submit, from the submit to the role prompt.  The
\* arguments are what the user typed and what the three services answer.
on_submit(fl, character_name, realm, token, fz1, fz2, response, mythic_response) ==
    /\ fl.pc = "Modal"
    /\ LET info == CharacterInfo(day, hour, fl.user, character_name, realm,
                                 EmptyStr, token, fz1, fz2, response, mythic_response)
       IN  IF info.tag = "raise"
           THEN flows' = Close(fl)
           ELSE flows' = Replace(fl, [fl EXCEPT !.pc = "AwaitingRole",
                                                !.character_info = info.value,
                                                !.fetched = FetchedProfile(realm, token, fz1, fz2,
                                                               response, mythic_response).value])
    /\ last' = Quiet
    /\ UNCHANGED <<day, hour, spreadsheet, worksheet, registered, retired, bot, call, guild>>

\* RoleView: a role button, or the view's timeout (role = None)
role_view(fl, role) ==
    /\ fl.pc = "AwaitingRole"
    /\ flows' = Replace(fl, [fl EXCEPT !.pc = "AwaitingBracket", !.selected_role = role])
    /\ last' = Quiet
    /\ UNCHANGED <<day, hour, spreadsheet, worksheet, registered, retired, bot, call, guild>>

\* KeyRangeView: a key range button, or the view's timeout (key_range = None)
key_range_view(fl, key_range) ==
    /\ fl.pc = "AwaitingBracket"
    /\ flows' = Replace(fl, [fl EXCEPT !.pc = "Persisting", !.selected_key_range = key_range])
    /\ last' = Quiet
    /\ UNCHANGED <<day, hour, spreadsheet, worksheet, registered, retired, bot, call, guild>>

\* row_data of on_submit
RowData(flow) ==
    [ts |-> flow.character_info.submission_time,
     char |-> flow.character_info.character_name,
     cls |-> flow.character_info.character_class,
     user |-> flow.character_info.discord_user,
     realm |-> flow.character_info.realm,
     role |-> flow.selected_role,
     ilvl |-> flow.character_info.item_level,
     rating |-> flow.character_info.mythic_plus_rating,
     key |-> flow.character_info.highest_key,
     bracket |-> flow.selected_key_range,
     blank |-> EmptyStr,
     notes |-> flow.character_info.special_requests]

\* a faulty append: a failed write is tried again and then reported as done
PersistRetrying(op, row_data, checked, fail) ==
    /\ TotalRows(spreadsheet) < MaxRows
    /\ spreadsheet' = append_row(spreadsheet, worksheet, SignupRow(row_data))
    /\ registered' = [registered EXCEPT ![row_data.user] = "active"]
    /\ last' = Last(op, row_data.user, <<row_data.char, row_data.realm>>,
                    IF fail THEN "append" ELSE "none", TRUE, checked, worksheet,
                    "registration completed")

\* a faulty append: into the worksheet the bot was started with
PersistStale(op, row_data, checked, fail) ==
    /\ TotalRows(spreadsheet) < MaxRows
    /\ IF fail
       THEN /\ spreadsheet' = spreadsheet
            /\ registered' = registered
            /\ last' = Last(op, row_data.user, <<row_data.char, row_data.realm>>, "append",
                            FALSE, checked, worksheet, "error recording")
       ELSE /\ spreadsheet' = append_row(spreadsheet, 2, SignupRow(row_data))
            /\ registered' = [registered EXCEPT ![row_data.user] = "active"]
            /\ last' = Last(op, row_data.user, <<row_data.char, row_data.realm>>, "none",
                            TRUE, checked, worksheet, "registration completed")

\* worksheet.append_row(row_data) of on_submit and what follows it
Persist(op, row_data, checked, fail) ==
    /\ TotalRows(spreadsheet) < MaxRows
    /\ IF fail
       THEN /\ spreadsheet' = spreadsheet
            /\ registered' = registered
            /\ last' = Last(op, row_data.user, <<row_data.char, row_data.realm>>, "append",
                            FALSE, checked, worksheet, "error recording")
       ELSE /\ spreadsheet' = append_row(spreadsheet, worksheet, SignupRow(row_data))
            /\ registered' = [registered EXCEPT ![row_data.user] = "active"]
            /\ last' = Last(op, row_data.user, <<row_data.char, row_data.realm>>, "none",
                            TRUE, checked, worksheet, "registration completed")

\* RegistrationModal.on_submit, after the key range prompt: append the row
persist(fl) ==
    /\ fl.pc = "Persisting"
    /\ \E fail \in BOOLEAN : Persist("persist", RowData(fl), fl.checked, fail)
    /\ flows' = Close(fl)
    /\ UNCHANGED <<day, hour, worksheet, retired, bot, call, guild>>

\* the failures of the rotation the workflow specification draws from
TaskFailures == {"none", "create"}

Next ==
    \/ Tick
    \/ \E fail \in TaskFailures : Rotate(fail)
    \/ \E u \in Users : signup_button(u)
    \/ \E fl \in BagToSet(flows) : edit_yes_button(fl)
    \/ \E fl \in BagToSet(flows) : edit_no_button(fl)
    \/ \E u \in Users : remove_button(u)
    \/ \E fl \in BagToSet(flows) : remove_yes_button(fl)
    \/ \E fl \in BagToSet(flows) : remove_no_button(fl)
    \/ \E fl \in BagToSet(flows), keep \in BOOLEAN : start_registration_button(fl, keep)
    \/ \E fl \in BagToSet(flows) : abandon(fl)
    \/ \E fl \in BagToSet(flows), realm \in RealmInputs :
          on_submit(fl, Jaina, realm, "ok", FuzzyMiss, FuzzyMiss, ProfileFound, MythicFound)
    \/ \E fl \in BagToSet(flows) : role_view(fl, DPS)
    \/ \E fl \in BagToSet(flows) : key_range_view(fl, Heroics)
    \/ \E fl \in BagToSet(flows) : persist(fl)

Spec == Init /\ [][Next]_vars

---------------------------------------------------------------------------
(* The store on its own: the store functions called directly, with         *)
(* arguments that need not come from a record read before                  *)

\* a row as on_submit builds it for a character the profile service knows
StoredRow(u, character_name, realm) ==
    [ts |-> Timestamp(day, hour), char |-> character_name, cls |-> Mage, user |-> u,
     realm |-> realm, role |-> DPS, ilvl |-> Num(480), rating |-> Num(2500),
     key |-> Num(12), bracket |-> Heroics, blank |-> EmptyStr, notes |-> EmptyStr]

\* the characters of the rows, and the characters and realms remove is called with
StoredCharacters == {Capitalize(Jaina)}

RemovedCharacters == {Capitalize(Jaina), Jaina}

RemovedRealms == {Stormrage, Area52}

\* worksheet.append_row(row_data) on the active worksheet
store_append(u, character_name, realm) ==
    /\ Persist("store_append", StoredRow(u, character_name, realm), FALSE, FALSE)
    /\ UNCHANGED <<day, hour, worksheet, flows, retired, bot, call, guild>>

\* remove_registration(character_name, realm, discord_name)
store_remove(character_name, realm, discord_name, fail) ==
    /\ Removal("store_remove", character_name, realm, discord_name, fail, "removed")
    /\ UNCHANGED <<day, hour, worksheet, flows, retired, bot, call, guild>>

NextStore ==
    \/ Tick
    \/ \E fail \in RotateFailures : Rotate(fail)
    \/ \E u \in Users, character_name \in StoredCharacters :
          store_append(u, character_name, Stormrage)
    \/ \E u \in Users, character_name \in RemovedCharacters, realm \in RemovedRealms,
          fail \in RemoveFailures : store_remove(character_name, realm, u, fail)

SpecStore == Init /\ [][NextStore]_vars

---------------------------------------------------------------------------
(* The week: the store at every weekday and hour *)

\* the days of one week that ends on LastDay
Days == (LastDay - 6)..LastDay

HoursOfDay == 0..23

\* the sheets before the week's rotation, and after it: the rotation of
\* Friday 18:00 has retired the sheet of this week
SheetsBefore ==
    << Sheet(RemovedSignups, RemovedHeader, <<>>),
       Sheet(GeneralInfo, SignupHeader,
             << SignupRow([StoredRow("alice", Thrall, Stormrage) EXCEPT !.ts = <<"date", 0>>]) >>) >>

SheetsAfter(friday) ==
    schedule_signup_date_change(friday, SheetsBefore, 2, "none")

InitWeek ==
    /\ day \in Days
    /\ hour \in HoursOfDay
    /\ \/ /\ spreadsheet = SheetsBefore
          /\ worksheet = 2
          /\ retired = [id |-> 0, day |-> 0]
          /\ registered = [u \in Users |-> IF u = "alice" THEN "active" ELSE "no"]
       \/ \E friday \in Days :
             /\ Weekday(friday) = Friday
             /\ day > friday \/ (day = friday /\ hour >= TaskHour)
             /\ spreadsheet = SheetsAfter(friday).ss
             /\ worksheet = SheetsAfter(friday).ws
             /\ retired = [id |-> 2, day |-> friday]
             /\ registered = [u \in Users |-> IF u = "alice" THEN "retired" ELSE "no"]
    /\ flows = EmptyBag
    /\ last = Quiet
    /\ bot = BotRotating
    /\ call = NoCall
    /\ guild = NoGuild

NextWeek ==
    \/ Tick
    \/ Rotate("none")
    \/ \E u \in Users : store_remove(Thrall, Stormrage, u, "none")

SpecWeek == InitWeek /\ [][NextWeek]_vars

---------------------------------------------------------------------------
(* The bot from the load of the module: on_ready and the task loops *)

\* the loops on_ready starts: both calls of start() are commented out
StartedByOnReady == {}

\* on_ready: the commands are synced, the loops it starts are running
on_ready ==
    /\ ~bot.ready
    /\ bot' = [ready |-> TRUE, running |-> bot.running \cup StartedByOnReady]
    /\ last' = Quiet
    /\ UNCHANGED <<day, hour, spreadsheet, worksheet, flows, registered, retired, call, guild>>

InitBot ==
    /\ day = Friday
    /\ hour = FirstHour
    /\ \E title \in {GeneralInfo, BaseTitle("Signups")} :
          spreadsheet = << Sheet(RemovedSignups, RemovedHeader, <<>>),
                           Sheet(title, SignupHeader, <<>>) >>
    /\ worksheet = 2
    /\ flows = EmptyBag
    /\ last = Quiet
    /\ registered = [u \in Users |-> "no"]
    /\ retired = [id |-> 0, day |-> 0]
    /\ bot = BotLoaded
    /\ call = NoCall
    /\ guild = NoGuild

\* the rotation is no disjunct here: with no loop running its guard is
\* never true
NextBot ==
    \/ on_ready
    \/ Tick
    \/ bot.ready /\ \E u \in Users, character_name \in StoredCharacters :
          store_append(u, character_name, Stormrage)
    \/ bot.ready /\ \E u \in Users, character_name \in RemovedCharacters :
          store_remove(character_name, Stormrage, u, "none")

SpecBot == InitBot /\ [][NextBot]_vars

---------------------------------------------------------------------------
(* The registration form: one user, one form at a time, with every answer   *)
(* of the form, of the prompts and of the services                         *)

FuzzyHit == [tag |-> "return", best_match |-> Area52, score |-> Threshold + 1]

FuzzyRaise == [tag |-> "raise"]

FormFuzzy == {FuzzyMiss, FuzzyHit, FuzzyRaise}

\* what the user types as realm: a key of the table whose slug is a key
\* again once capitalized, a key whose slug is not, and no key
FormRealms == {Stormrage, Area52, <<"x","y","z">>}

\* the answers to the role prompt and to the key range prompt; None is the
\* view's timeout
FormRoles == {DPS, None}

FormKeyRanges == {Heroics, None}

\* the answers of the profile service: both requests answered, or the
\* character unknown
\* a character body with a class and without "equipped_item_level":
\* data.get("equipped_item_level") is None
ProfilePartial == [ProfileFound EXCEPT !.ilvl = None]

FormProfiles == { <<ProfileFound, MythicFound>>,
                  <<ProfileStatus(404), MythicFound>>,
                  <<ProfileFound, MythicStatus(404)>>,
                  <<ProfilePartial, MythicFound>>,
                  <<ProfileRaises, MythicFound>> }

\* what the token exchange does while a form is submitted
FormTokens == {"ok", "http_error", "no_token"}

NextForm ==
    \/ flows = EmptyBag /\ signup_button("alice")
    \/ \E fl \in BagToSet(flows) : start_registration_button(fl, FALSE)
    \/ \E fl \in BagToSet(flows), realm \in FormRealms, token \in FormTokens,
          fz1 \in FormFuzzy, fz2 \in FormFuzzy, profile \in FormProfiles :
          on_submit(fl, Jaina, realm, token, fz1, fz2, profile[1], profile[2])
    \/ \E fl \in BagToSet(flows), role \in FormRoles : role_view(fl, role)
    \/ \E fl \in BagToSet(flows), key_range \in FormKeyRanges : key_range_view(fl, key_range)
    \/ \E fl \in BagToSet(flows) : persist(fl)
    \/ \E fl \in BagToSet(flows) : edit_yes_button(fl)
    \/ \E fl \in BagToSet(flows) : abandon(fl)

SpecForm == Init /\ [][NextForm]_vars

---------------------------------------------------------------------------
(* The nightly update: update_character_data next to the store functions *)

\* newer profile data than the rows hold
ProfileNewer == [ProfileFound EXCEPT !.ilvl = Num(485)]

MythicNewer == [MythicFound EXCEPT !.rating = Num(2600), !.best_runs = Present(<<13>>)]

\* what the services answer while one row is updated
UpdateAnswers ==
    {[fz |-> fz, response |-> response, mythic_response |-> mythic_response] :
        fz \in {FuzzyMiss}, response \in {ProfileNewer, ProfileStatus(404), ProfileRaises},
        mythic_response \in {MythicNewer, MythicStatus(404)}}

\* the body of the loop of update_character_data for one row: an exception
\* is logged and the row is left as it is
UpdatedRow(row, a) ==
    IF row.char = EmptyStr \/ row.realm = EmptyStr THEN row
    ELSE LET resolved == sanitize_realm(Lower(row.realm), a.fz)
         IN  IF resolved.tag = "raise" \/ resolved.value = None THEN row
             ELSE IF resolved.value[1] = None THEN row
             ELSE LET data == get_character_data(resolved.value[1], AccessToken, a.fz,
                                                 a.response, a.mythic_response)
                  IN  IF data.tag = "raise" THEN row
                      ELSE [row EXCEPT
                               !.ilvl = IF data.value[2] # None THEN data.value[2] ELSE @,
                               !.rating = IF data.value[3] # None THEN data.value[3] ELSE @,
                               !.key = IF data.value[4] # None THEN data.value[4] ELSE @]

\* update_character_data(): every row of the active worksheet in turn
update_character_data(token, answers) ==
    /\ LET rows == spreadsheet[worksheet].rows
           access_token == get_access_token(token)
       IN  IF access_token.tag = "raise" \/ access_token.value = None
           THEN /\ spreadsheet' = spreadsheet
                /\ last' = Last("update_character_data", "", <<>>, "token", FALSE, FALSE,
                                worksheet, "")
           ELSE /\ spreadsheet' = [spreadsheet EXCEPT ![worksheet].rows =
                                      [i \in DOMAIN rows |-> UpdatedRow(rows[i], answers[i])]]
                /\ last' = Last("update_character_data", "", <<>>, "none", TRUE, FALSE,
                                worksheet, "")
    /\ UNCHANGED <<day, hour, worksheet, flows, registered, retired, bot, call, guild>>

NextNightly ==
    \/ Tick
    \/ \E fail \in TaskFailures : Rotate(fail)
    \/ \E u \in Users : store_append(u, Capitalize(Jaina), Stormrage)
    \/ \E u \in Users, fail \in RemoveFailures :
          store_remove(Capitalize(Jaina), Stormrage, u, fail)
    \/ \E token \in {"ok", "http_error"} :
          \E answers \in [DOMAIN spreadsheet[worksheet].rows -> UpdateAnswers] :
             update_character_data(token, answers)

SpecNightly == Init /\ [][NextNightly]_vars

---------------------------------------------------------------------------
(* The sign-up across a rotation: Sign Up is pressed before the rotation only *)

NextRace ==
    \/ Tick
    \/ \E fail \in RotateFailures : Rotate(fail)
    \/ retired.id = 0 /\ \E u \in Users : signup_button(u)
    \/ \E fl \in BagToSet(flows) : start_registration_button(fl, FALSE)
    \/ \E fl \in BagToSet(flows), realm \in RealmInputs :
          on_submit(fl, Jaina, realm, "ok", FuzzyMiss, FuzzyMiss, ProfileFound, MythicFound)
    \/ \E fl \in BagToSet(flows) : role_view(fl, DPS)
    \/ \E fl \in BagToSet(flows) : key_range_view(fl, Heroics)
    \/ \E fl \in BagToSet(flows) : persist(fl)

SpecRace == Init /\ [][NextRace]_vars

---------------------------------------------------------------------------
(* The remove flow: one press of Remove Signup at a time *)

\* a prompt that is shown is answered, or its view times out
AnswerOrTimeout ==
    \E fl \in BagToSet(flows) : remove_yes_button(fl) \/ remove_no_button(fl) \/ abandon(fl)

NextRemove ==
    \/ Tick
    \/ \E fail \in TaskFailures : Rotate(fail)
    \/ \E u \in Users : store_append(u, Capitalize(Jaina), Stormrage)
    \/ flows = EmptyBag /\ \E u \in Users : remove_button(u)
    \/ \E fl \in BagToSet(flows) : remove_yes_button(fl)
    \/ \E fl \in BagToSet(flows) : remove_no_button(fl)
    \/ \E fl \in BagToSet(flows) : abandon(fl)

SpecRemove == Init /\ [][NextRemove]_vars /\ WF_vars(AnswerOrTimeout)

---------------------------------------------------------------------------
(* Removals among the sign-ups and removals of other users: the handlers    *)
(* run on one event loop and remove_registration awaits nothing, so each    *)
(* call is one step between the steps of the others                         *)

\* the model stops adding rows here once the spreadsheet holds this many
MaxInterleaved == 3

\* worksheet.append_row(row_data) of a sign-up that has reached its end
interleaved_append(u, character_name) ==
    /\ TotalRows(spreadsheet) < MaxInterleaved
    /\ spreadsheet' = append_row(spreadsheet, worksheet,
                                 SignupRow(StoredRow(u, character_name, Stormrage)))
    /\ registered' = [registered EXCEPT ![u] = "active"]
    /\ last' = Last("store_append", u, <<character_name, Stormrage>>, "none", TRUE, FALSE,
                    worksheet, "registration completed")
    /\ UNCHANGED <<day, hour, worksheet, flows, retired, bot, call, guild>>

NextInterleave ==
    \/ Tick
    \/ Rotate("none")
    \/ \E u \in Users, character_name \in {Capitalize(Jaina), Thrall} :
          interleaved_append(u, character_name)
    \/ \E u \in Users : remove_button(u)
    \/ \E fl \in BagToSet(flows) : remove_yes_button(fl)
    \/ \E fl \in BagToSet(flows) : remove_no_button(fl)

SpecInterleave == Init /\ [][NextInterleave]_vars

---------------------------------------------------------------------------
(* The channel commands: /mplus channels add and /mplus channels remove *)

\* the highest number a command is given
MaxNumber == 13

\* who runs a command: a member without roles, with a role that is not
\* allowed, with allowed roles, and the guild owner
Members ==
    { [roles |-> {}, is_owner |-> FALSE],
      [roles |-> {"Member"}, is_owner |-> FALSE],
      [roles |-> {"Raid Leader"}, is_owner |-> FALSE],
      [roles |-> {"Member", "Admin"}, is_owner |-> FALSE],
      [roles |-> {}, is_owner |-> TRUE] }

\* the voice channels a guild may hold before the first command: static
\* ones, temporary ones, one outside the category, and ones whose last word
\* is no number
ChannelPool ==
    { VoiceChannel(ChannelName(9), KeyEvent),
      VoiceChannel(ChannelName(10), KeyEvent),
      VoiceChannel(ChannelName(11), KeyEvent),
      VoiceChannel(ChannelName(12), "Static"),
      VoiceChannel(MythicPlus \o <<"x">>, KeyEvent),
      VoiceChannel(<<"L","o","b","b","y">>, KeyEvent) }

InitChannels ==
    /\ day = Friday
    /\ hour = FirstHour
    /\ spreadsheet = << Sheet(RemovedSignups, RemovedHeader, <<>>),
                        Sheet(GeneralInfo, SignupHeader, <<>>) >>
    /\ worksheet = 2
    /\ flows = EmptyBag
    /\ last = Quiet
    /\ registered = [u \in Users |-> "no"]
    /\ retired = [id |-> 0, day |-> 0]
    /\ bot = BotRotating
    /\ call = NoCall
    /\ guild \in [categories : {{}, {KeyEvent}}, voice_channels : SUBSET ChannelPool]
    /\ \A ch \in guild.voice_channels : ch.category = KeyEvent => KeyEvent \in guild.categories

\* /mplus channels add <number>
channels_add(user, number, upto) ==
    /\ LET r == add(guild, user, number, upto)
       IN  /\ guild' = r.guild
           /\ call' = [fn |-> "channels.add", args |-> <<user, number>>, result |-> r.answer]
    /\ UNCHANGED <<day, hour, spreadsheet, worksheet, flows, last, registered, retired, bot>>

\* /mplus channels remove
channels_remove(user, fail) ==
    /\ LET r == remove(guild, user, fail)
       IN  /\ guild' = r.guild
           /\ call' = [fn |-> "channels.remove", args |-> <<user>>, result |-> r.answer]
    /\ UNCHANGED <<day, hour, spreadsheet, worksheet, flows, last, registered, retired, bot>>

NextChannels ==
    \/ \E user \in Members, number \in {-1, 10} \cup (11..MaxNumber), upto \in 10..MaxNumber :
          channels_add(user, number, upto)
    \/ \E user \in Members, fail \in BOOLEAN : channels_remove(user, fail)

SpecChannels == InitChannels /\ [][NextChannels]_vars

---------------------------------------------------------------------------
(* The resolver: sanitize_realm called on its own *)

\* the realm names the resolver is called with: keys of the table in several
\* spellings and spacings, names that are no key, empty ones, and None
ResolverInputs ==
    { <<"s","t","o","r","m","r","a","g","e">>,
      <<"S","t","o","r","m","r","a","g","e">>,
      <<"S","T","O","R","M","R","A","G","E">>,
      <<" ","s","t","o","r","m","r","a","g","e"," ">>,
      <<"a","r","e","a"," ","5","2">>,
      <<"a","r","e","a"," "," ","5","2">>,
      <<"A","r","e","a"," ","5","2">>,
      <<"A","R","E","A"," ","5","2">>,
      <<"a","r","e","a","5","2">>,
      <<"a","r","e","a","-","5","2">>,
      <<"s","t","o","r","m","r","g","e">>,
      <<"s","t","o","r","m"," ","r","a","g","e">>,
      <<"x","y","z">>,
      EmptyStr,
      <<" ">>,
      <<" "," ">>,
      None }

\* the scores process.extractOne answers with: none, the threshold, just
\* above it, and full
ResolverScores == {0, Threshold, Threshold + 1, 100}

ResolverFuzzy ==
    {[tag |-> "return", best_match |-> k, score |-> sc] :
        k \in DOMAIN server_lookup, sc \in ResolverScores} \cup {FuzzyRaise}

\* process.extractOne on a query without characters scores every choice 0
FuzzyAnswersTo(realm_name) ==
    IF realm_name # None /\ Standardize(realm_name) = EmptyStr
    THEN {fz \in ResolverFuzzy : fz.tag = "raise" \/ fz.score = 0}
    ELSE ResolverFuzzy

\* one call sanitize_realm(realm_name)
resolve(realm_name, fz) ==
    /\ call' = [fn |-> "sanitize_realm", args |-> <<realm_name, fz>>,
                result |-> sanitize_realm(realm_name, fz)]
    /\ UNCHANGED <<day, hour, spreadsheet, worksheet, flows, last, registered, retired, bot, guild>>

NextResolver ==
    \E realm_name \in ResolverInputs : \E fz \in FuzzyAnswersTo(realm_name) :
        resolve(realm_name, fz)

SpecResolver == Init /\ [][NextResolver]_vars

---------------------------------------------------------------------------
(* The profile fetch: get_character_data called on its own *)

\* the slugs on_submit hands over: one that is a key of the table again once
\* capitalized, and one that is not
ProfileRealms == {server_lookup[Stormrage], server_lookup[Area52]}

\* one call get_character_data(realm, character_name, access_token)
fetch(realm, fz, response, mythic_response) ==
    /\ call' = [fn |-> "get_character_data",
                args |-> <<realm, AccessToken, fz, response, mythic_response>>,
                result |-> get_character_data(realm, AccessToken, fz, response, mythic_response)]
    /\ UNCHANGED <<day, hour, spreadsheet, worksheet, flows, last, registered, retired, bot, guild>>

\* one call get_access_token()
exchange(resp) ==
    /\ call' = [fn |-> "get_access_token", args |-> <<resp>>, result |-> get_access_token(resp)]
    /\ UNCHANGED <<day, hour, spreadsheet, worksheet, flows, last, registered, retired, bot, guild>>

NextProfile ==
    \/ \E realm \in ProfileRealms, fz \in FormFuzzy, response \in CharacterResponses,
          mythic_response \in MythicResponses :
           fetch(realm, fz, response, mythic_response)
    \/ \E resp \in TokenResponses : exchange(resp)

SpecProfile == Init /\ [][NextProfile]_vars

---------------------------------------------------------------------------
(* The submit: on_submit up to character_info, once *)

\* the part of on_submit from the submit to character_info, with what the
\* user typed as realm and what the three services answer
submit(realm, token, fz1, fz2, response, mythic_response) ==
    /\ call = NoCall
    /\ call' = [fn |-> "on_submit",
                args |-> <<realm, token, fz1, fz2, response, mythic_response>>,
                result |-> CharacterInfo(day, hour, "alice", Jaina, realm, EmptyStr, token,
                                         fz1, fz2, response, mythic_response)]
    /\ UNCHANGED <<day, hour, spreadsheet, worksheet, flows, last, registered, retired, bot, guild>>

NextSubmit ==
    \E realm \in FormRealms, token \in FormTokens, fz1 \in FormFuzzy, fz2 \in FormFuzzy,
       profile \in FormProfiles :
        submit(realm, token, fz1, fz2, profile[1], profile[2])

SpecSubmit == Init /\ [][NextSubmit]_vars

---------------------------------------------------------------------------
(* Properties *)

\* the worksheet "Removed Signups"
Archive == WorksheetByTitle(spreadsheet, RemovedSignups)

\* the step recorded in l called remove_registration
IsRemove(l) == l.op \in {"store_remove", "edit_yes", "remove_yes"}

\* the rows that match the arguments of the call recorded in l
Matching(rows, l) ==
    {i \in DOMAIN rows :
        rows[i].char = l.key[1] /\ rows[i].realm = l.key[2] /\ rows[i].user = l.user}

\* the rows of user u
RowsOf(rows, u) == {i \in DOMAIN rows : rows[i].user = u}

First(S) == CHOOSE i \in S : \A j \in S : i <= j

Without(rows, i) == SubSeq(rows, 1, i - 1) \o SubSeq(rows, i + 1, Len(rows))

IsPrefix(a, b) == Len(a) <= Len(b) /\ SubSeq(b, 1, Len(a)) = a

\* row copies the identifying fields of record
IsCopyOf(row, record) ==
    /\ row.char = record.char
    /\ row.cls = record.cls
    /\ row.user = record.user
    /\ row.realm = record.realm
    /\ row.role = record.role

\* C1: in every reachable state the active worksheet holds at most one
\* record per Discord user
C1_OneRecordPerUser ==
    \A u \in Users : Cardinality(RowsOf(spreadsheet[worksheet].rows, u)) <= 1

\* C2, as the code has it: a press of Sign Up by u changes no worksheet and
\* opens the edit prompt with the first record of u in the active worksheet
\* if there is one, the registration prompt if there is none; a user whose
\* sign-up completed, with no removal and no rotation since, gets the edit
\* prompt; and no row of any worksheet disappears or changes except by a
\* Yes answer whose removal succeeds
C2_SignupLooksUpFirst ==
    [][ /\ last'.op = "signup_button" =>
              LET u == last'.user
                  rows == spreadsheet[worksheet].rows
                  mine == RowsOf(rows, u)
              IN  /\ spreadsheet' = spreadsheet
                  /\ worksheet' = worksheet
                  /\ \E fl \in BagToSet(flows') :
                        /\ flows' = flows (+) SetToBag({fl})
                        /\ fl.user = u
                        /\ IF mine # {}
                           THEN fl.pc = "EditConfirm" /\ fl.existing_record = rows[First(mine)]
                           ELSE fl.pc = "StartView"
                  /\ registered[u] = "active" => mine # {}
        /\ (\E i \in DOMAIN spreadsheet :
               ~IsPrefix(spreadsheet[i].rows, spreadsheet'[i].rows))
              => last'.op \in {"edit_yes", "remove_yes"} /\ last'.ok
      ]_vars

\* C2 reached: a user with a completed sign-up presses Sign Up again and is
\* shown the edit prompt
C2_SecondSignupPrompted ==
    /\ last.op = "signup_button"
    /\ registered[last.user] = "active"
    /\ \E fl \in BagToSet(flows) : fl.pc = "EditConfirm" /\ fl.user = last.user

\* C2, as stated: a sign-up by a user whose earlier sign-up completed, before
\* any removal, enters the edit prompt
C2_SecondSignupBeforeRemoval ==
    [][ (last'.op = "signup_button" /\ registered[last'.user] # "no")
            => \E fl \in BagToSet(flows') :
                  /\ flows' = flows (+) SetToBag({fl})
                  /\ fl.user = last'.user
                  /\ fl.pc = "EditConfirm"
      ]_vars

\* C3: every flow that is past the duplicate check, and every append of a
\* new record, belongs to a flow whose lookup of the user in the active
\* worksheet returned no record
C3_CheckedBeforePersisting ==
    /\ \A fl \in BagToSet(flows) :
          fl.pc \in {"StartView", "Modal", "AwaitingRole", "AwaitingBracket", "Persisting"}
             => fl.checked
    /\ last.op = "persist" => last.found

\* C3 reached: a record has been appended
C3_Persisted == last.op = "persist" /\ last.ok /\ last.found

C5_NoMatchNoChange ==
    [][ (IsRemove(last') /\ Matching(spreadsheet[last'.src].rows, last') = {})
            => ~last'.ok /\ spreadsheet' = spreadsheet
      ]_vars

\* C5 reached: a removal failed on a row that differs from the arguments in
\* the case of the character name only
C5_CaseMismatch ==
    /\ IsRemove(last)
    /\ ~last.ok
    /\ ~last.found
    /\ \E i \in DOMAIN spreadsheet[last.src].rows :
          LET row == spreadsheet[last.src].rows[i]
          IN  /\ row.user = last.user
              /\ row.realm = last.key[2]
              /\ row.char # last.key[1]
              /\ Lower(row.char) = Lower(last.key[1])

\* C6, as the code has it: a remove_registration in which the copy or the
\* deletion raises returns False and leaves the searched worksheet as it
\* was; the archival worksheet is as it was if the copy raised and has the
\* copy of the record as one more row if the deletion raised
C6_FailedRemoveKeepsRecord ==
    [][ (IsRemove(last') /\ last'.found /\ last'.fail # "none")
            => LET src == last'.src
                   rows == spreadsheet[src].rows
                   i == First(Matching(rows, last'))
                   archived == spreadsheet'[Archive].rows
               IN  /\ ~last'.ok
                   /\ spreadsheet'[src] = spreadsheet[src]
                   /\ last'.fail = "append" => spreadsheet' = spreadsheet
                   /\ last'.fail = "delete" =>
                         /\ Len(archived) = Len(spreadsheet[Archive].rows) + 1
                         /\ IsPrefix(spreadsheet[Archive].rows, archived)
                         /\ IsCopyOf(archived[Len(archived)], rows[i])
      ]_vars

\* C6 reached: the deletion raised after the copy, and the record is in the
\* searched worksheet and in the archival one
C6_CopiedNotDeleted ==
    /\ IsRemove(last)
    /\ last.fail = "delete"
    /\ ~last.ok
    /\ Matching(spreadsheet[last.src].rows, last) # {}
    /\ Matching(spreadsheet[Archive].rows, last) # {}

\* C6, as stated: after a remove in which the copy or the deletion failed
\* the record is in exactly one of the searched and the archival table
C6_ExactlyOneCopy ==
    [][ (IsRemove(last') /\ last'.found /\ last'.fail # "none")
            => /\ ~last'.ok
               /\ \/ spreadsheet' = spreadsheet
                  \/ /\ Len(spreadsheet'[last'.src].rows) = Len(spreadsheet[last'.src].rows) - 1
                     /\ Len(spreadsheet'[Archive].rows) = Len(spreadsheet[Archive].rows) + 1
      ]_vars

\* the window of C7, from the numbers of its statement
FridayEveningOrSaturdayMorning ==
    \/ day % 7 = 4 /\ hour >= 18
    \/ day % 7 = 5 /\ hour < 12

\* the worksheets titled "General Info - Cutoff <date>" for the Saturday of
\* the window the clock is in
CutoffSheets ==
    LET saturday == IF day % 7 = 4 THEN day + 1 ELSE day
    IN  {i \in DOMAIN spreadsheet :
            spreadsheet[i].title = <<"General Info", <<"Cutoff", saturday>>>>}

C8_WindowSearchesRetired ==
    (/\ InCutoffWindow(day, hour)
     /\ retired.id # 0
     /\ retired.day = (IF Weekday(day) = Friday THEN day ELSE day - 1))
        => get_current_removal_sheet(day, hour, spreadsheet, worksheet) = retired.id

\* C9: a rotation on a Friday in which no store call raises renames the
\* active worksheet by appending the cutoff suffix with the next day's date,
\* keeps its header and rows, adds one worksheet titled "General Info" with
\* that header and no rows, changes no other worksheet and points the
\* pointer at the new one, where the lookup finds no record of any user
C9_RotateOnFriday ==
    [][ (last'.op = "rotate" /\ day' % 7 = 4 /\ last'.fail = "none")
            => /\ Len(spreadsheet') = Len(spreadsheet) + 1
               /\ spreadsheet'[worksheet] =
                     [spreadsheet[worksheet] EXCEPT
                         !.title = Append(@, <<"Cutoff", day' + 1>>)]
               /\ \A k \in DOMAIN spreadsheet \ {worksheet} : spreadsheet'[k] = spreadsheet[k]
               /\ worksheet' = Len(spreadsheet')
               /\ spreadsheet'[worksheet'] =
                     [title |-> <<"General Info">>, header |-> spreadsheet[worksheet].header,
                      rows |-> <<>>]
               /\ \A u \in Users :
                     check_user_registration(spreadsheet', worksheet', u) = NoRecord
      ]_vars

\* C9 reached: a rotation has retired a worksheet that holds a record
C9_RotatedWithRecords ==
    /\ last.op = "rotate"
    /\ last.ok
    /\ spreadsheet[last.src].rows # <<>>
    /\ worksheet # last.src

\* C10: a rotation on any day but Friday leaves the pointer and every
\* worksheet as they were
C10_RotateOffFriday ==
    [][ (last'.op = "rotate" /\ day' % 7 # 4)
            => worksheet' = worksheet /\ spreadsheet' = spreadsheet
      ]_vars

\* C10 reached: the task has run on a Tuesday
C10_RanOnTuesday == last.op = "rotate" /\ day % 7 = 1 /\ ~last.ok

\* C11: once on_ready has run, every time the clock reaches Friday 18:00
\* the rotation task runs
C11_RotateAtEveryTrigger ==
    [][ (bot.ready /\ hour # hour' /\ day' % 7 = 4 /\ hour' = 18)
            => last'.op = "rotate"
      ]_vars

\* the step appended the row of a flow that was at the append: the new row
\* is the last of the active worksheet, every other row is as it was
AppendedOne ==
    /\ spreadsheet'[worksheet].rows # spreadsheet[worksheet].rows
    /\ Len(spreadsheet'[worksheet].rows) = Len(spreadsheet[worksheet].rows) + 1
    /\ IsPrefix(spreadsheet[worksheet].rows, spreadsheet'[worksheet].rows)
    /\ \A k \in DOMAIN spreadsheet \ {worksheet} : spreadsheet'[k] = spreadsheet[k]
    /\ DOMAIN spreadsheet' = DOMAIN spreadsheet

\* C12: the step of the sheet update appends one row and sends the success
\* message, or, if the write raised, leaves every worksheet as it was, sends
\* the error message and no success message, and ends the flow without a
\* second append
C12_FailedAppendReported ==
    [][ last'.op = "persist" =>
           /\ \E fl \in BagToSet(flows) : fl.pc = "Persisting" /\ flows' = Close(fl)
           /\ IF last'.fail = "none"
              THEN AppendedOne /\ last'.ok /\ last'.msg = "registration completed"
              ELSE /\ spreadsheet' = spreadsheet
                   /\ ~last'.ok
                   /\ last'.msg = "error recording"
      ]_vars

\* C12 reached: the write raised and the user was told so
C12_WriteFailed ==
    /\ last.op = "persist"
    /\ last.fail = "append"
    /\ last.msg = "error recording"
    /\ flows = EmptyBag

\* C13: the row appended for a flow carries in the columns Role and Key
\* Range what the prompts left in the flow, the empty cell if a prompt timed
\* out, and never a value the user did not choose
C13_UnansweredStaysUnset ==
    [][ (last'.op = "persist" /\ last'.ok) =>
           \E fl \in BagToSet(flows) :
              LET rows == spreadsheet'[worksheet].rows
                  row == rows[Len(rows)]
              IN  /\ fl.pc = "Persisting"
                  /\ flows' = Close(fl)
                  /\ row.role = (IF fl.selected_role = <<"None">> THEN <<>> ELSE fl.selected_role)
                  /\ row.bracket = (IF fl.selected_key_range = <<"None">> THEN <<>>
                                                                     ELSE fl.selected_key_range)
      ]_vars

\* C13 reached: both prompts timed out and the row was appended with both
\* cells empty
C13_BothPromptsTimedOut ==
    /\ last.op = "persist"
    /\ last.ok
    /\ LET rows == spreadsheet[worksheet].rows
       IN  rows # <<>> /\ rows[Len(rows)].role = <<>> /\ rows[Len(rows)].bracket = <<>>

\* C18: no row of the active worksheet has an empty Realm cell
C18_NoRecordWithoutRealm ==
    \A i \in DOMAIN spreadsheet[worksheet].rows : spreadsheet[worksheet].rows[i].realm # <<>>


\* C14: once the sign-up has appended its row, looking the same user up in the
\* active worksheet gives a record equal, column by column, to the row that
\* was appended (a value left unset read as the empty cell it was written as),
\* whatever the worksheet held before
C14_AppendThenFind ==
    [][ (last'.op = "persist" /\ last'.ok)
            => \A fl \in BagToSet(flows) :
                  (fl.pc = "Persisting" /\ flows' = Close(fl))
                      => check_user_registration(spreadsheet', worksheet', fl.user)
                             = SignupRow(RowData(fl)) ]_vars

\* the same, for the worksheets that hold no row of the user before the append
C14_AppendThenFindFirstRow ==
    [][ (last'.op = "persist" /\ last'.ok)
            => \A fl \in BagToSet(flows) :
                  (fl.pc = "Persisting" /\ flows' = Close(fl)
                      /\ check_user_registration(spreadsheet, worksheet, fl.user) = NoRecord)
                      => check_user_registration(spreadsheet', worksheet', fl.user)
                             = SignupRow(RowData(fl)) ]_vars

\* the realm name of the last call of the resolver, and the matcher's answer
ResolverCalled == call.fn = "sanitize_realm"

RealmArg == call.args[1]

FuzzyArg == call.args[2]

ExactMatch == RealmArg # None /\ Standardize(RealmArg) \in DOMAIN server_lookup

NoExactMatch == RealmArg # None /\ Standardize(RealmArg) \notin DOMAIN server_lookup

\* C15: for every realm name whose normalized form (split on whitespace, each
\* word capitalized, joined by single spaces) is a key of the table, the
\* resolver returns (the key's slug, the normalized form) whatever the fuzzy
\* matcher would answer, an exception included: the matcher is not asked
C15_ExactMatchReturned ==
    (ResolverCalled /\ ExactMatch)
        => call.result = Return(<<server_lookup[Standardize(RealmArg)], Standardize(RealmArg)>>)

\* "stormrage" resolved to ("stormrage", "Stormrage") with a matcher that raises
C15_StormrageResolved ==
    /\ ResolverCalled
    /\ RealmArg = <<"s","t","o","r","m","r","a","g","e">>
    /\ FuzzyArg = FuzzyRaise
    /\ call.result = Return(<<RealmArg, Stormrage>>)

\* C16: for a realm name without exact match, the resolver returns (slug, key)
\* of the matcher's best candidate when its score is above 80, and the pair
\* (None, None) when the score is 80 or lower
C16_FuzzyOrPairOfNulls ==
    (ResolverCalled /\ NoExactMatch /\ FuzzyArg.tag = "return")
        => call.result = IF FuzzyArg.score > 80
                         THEN Return(<<server_lookup[FuzzyArg.best_match], FuzzyArg.best_match>>)
                         ELSE Return(<<None, None>>)

\* the half of C16 above the threshold: a score above 80 gives the candidate,
\* a score of 80 or lower does not
C16_FuzzyAboveThreshold ==
    (ResolverCalled /\ NoExactMatch /\ FuzzyArg.tag = "return")
        => IF FuzzyArg.score > 80
           THEN call.result = Return(<<server_lookup[FuzzyArg.best_match], FuzzyArg.best_match>>)
           ELSE call.result = Return(None)

\* C17: called with an empty realm name, one of whitespace only, or None, the
\* resolver raises nothing and returns "not found" (read here as either the
\* pair of Nones or a single None)
C17_MalformedNotFound ==
    (ResolverCalled /\ RealmArg \in {EmptyStr, <<" ">>, <<" "," ">>, None})
        => call.result \in {Return(<<None, None>>), Return(None)}

\* the last call of the profile fetch: what its realm resolves to, and what
\* the two endpoints do
ProfileCalled == call.fn = "get_character_data"

ProfileRealm == sanitize_realm(call.args[1], call.args[3])

RealmResolved ==
    /\ ProfileRealm.tag = "return"
    /\ ProfileRealm.value # None
    /\ ProfileRealm.value[1] # None

AttributesResponse == call.args[4]

RankedResponse == call.args[5]

NonSuccess(response) == ~response.raised /\ response.status \notin 200..299

\* C19: the character (attributes) endpoint is requested first; when its
\* status is not 2xx the result is (None, None, None, None, realm display
\* name) whatever the mythic profile (ranked) endpoint would do, raising
\* included: that endpoint is not requested
C19_AttributesFirst ==
    (ProfileCalled /\ RealmResolved)
        => /\ AttributesResponse.raised => call.result = Raise(AttributesResponse.exc)
           /\ NonSuccess(AttributesResponse)
                => call.result = Return(<<None, None, None, None, ProfileRealm.value[2]>>)

\* the character endpoint answers 404 and the mythic profile endpoint would raise
C19_AttributesNotFound ==
    /\ ProfileCalled
    /\ AttributesResponse = ProfileStatus(404)
    /\ RankedResponse = MythicRaises
    /\ call.result = Return(<<None, None, None, None, Stormrage>>)

\* C20: when the character endpoint answers 200 and the mythic profile
\* endpoint answers with a status that is not 2xx, the result has None for the
\* rating and the highest key only, and still has the class and the item
\* level of the character endpoint, with the realm display name
C20_AttributesKept ==
    (ProfileCalled /\ RealmResolved /\ ~AttributesResponse.raised
        /\ AttributesResponse.status = 200 /\ NonSuccess(RankedResponse))
        => call.result = Return(<<AttributesResponse.cls, AttributesResponse.ilvl, None, None,
                                  ProfileRealm.value[2]>>)

BothSucceeded ==
    /\ ProfileCalled /\ RealmResolved
    /\ ~AttributesResponse.raised /\ AttributesResponse.status = 200
    /\ ~RankedResponse.raised /\ RankedResponse.status = 200

\* the keystone levels of the runs of the mythic profile body
KeystoneLevels ==
    IF RankedResponse.best_runs.present
    THEN {RankedResponse.best_runs.value[i] : i \in DOMAIN RankedResponse.best_runs.value}
    ELSE {}

\* C21: when both requests answer 200, the highest key of the result is the
\* greatest keystone level of the runs in "best_runs", and is "N/A" when
\* "best_runs" is empty or is not in the body
C21_HighestKeyIsMaximum ==
    BothSucceeded
        => IF KeystoneLevels = {}
           THEN call.result.value[4] = <<"N","/","A">>
           ELSE \E m \in KeystoneLevels :
                   /\ \A l \in KeystoneLevels : l <= m
                   /\ call.result.value[4] = Num(m)

\* three runs whose greatest level is neither the first nor the last
C21_MaximumOfThree ==
    /\ BothSucceeded
    /\ RankedResponse.best_runs = Present(<<2, 15, 9>>)
    /\ call.result.value[4] = Num(15)

\* a profile request that was made raised: the character request, or the
\* mythic profile request after a character response of status 200
RequestRaised ==
    \/ AttributesResponse.raised
    \/ ~AttributesResponse.raised /\ AttributesResponse.status = 200 /\ RankedResponse.raised

\* C22: when a profile request raises (no connection, timeout), the fetch
\* raises nothing to its caller and returns None for the four profile fields
C22_RequestErrorDegrades ==
    (ProfileCalled /\ RealmResolved /\ RequestRaised)
        => /\ call.result.tag = "return"
           /\ \A i \in 1..4 : call.result.value[i] = None

\* C23: the token exchange returns a token or None and raises nothing,
\* whatever the exchange does: transport error, timeout, status that is not
\* 2xx, or a 2xx response whose body has no access token
C23_TokenNeverRaises ==
    call.fn = "get_access_token"
        => /\ call.result.tag = "return"
           /\ call.result.value \in {AccessToken, None}

\* the part of C23 for the failures of the request itself: each gives None
C23_RequestFailureGivesNone ==
    (call.fn = "get_access_token"
        /\ call.args[1] \in {"http_error", "transport_error", "timeout"})
        => call.result = Return(None)

\* get_character_data gave None for all four profile fields
AllNull(data) == \A i \in 1..4 : data[i] = <<"None">>

\* class, item level, rating and highest key are all the placeholder
Placeheld(info) ==
    /\ info.character_class = <<"N","/","A">>
    /\ info.item_level = <<"N","/","A">>
    /\ info.mythic_plus_rating = <<"N","/","A">>
    /\ info.highest_key = <<"N","/","A">>

PlaceheldRow(row) ==
    /\ row.cls = <<"N","/","A">>
    /\ row.ilvl = <<"N","/","A">>
    /\ row.rating = <<"N","/","A">>
    /\ row.key = <<"N","/","A">>

\* C24: a form whose profile fetch gave an all-null profile is at the role
\* prompt, at the key range prompt or about to be persisted with "N/A" in the
\* four profile fields, and the row appended for it has "N/A" in the four cells
C24_AllNullProfileGetsPlaceholders ==
    [][ /\ \A fl \in BagToSet(flows') :
              (fl.pc \in {"AwaitingRole", "AwaitingBracket", "Persisting"} /\ AllNull(fl.fetched))
                  => Placeheld(fl.character_info)
        /\ \A fl \in BagToSet(flows) :
              (fl.pc = "Persisting" /\ AllNull(fl.fetched) /\ flows' = Close(fl)
                  /\ last'.op = "persist" /\ last'.ok)
                  => LET rows == spreadsheet'[worksheet].rows
                     IN  /\ Len(rows) = Len(spreadsheet[worksheet].rows) + 1
                         /\ PlaceheldRow(rows[Len(rows)])
      ]_vars

\* the same at the submit: with an all-null profile on_submit raises nothing
\* and goes on with "N/A" in the four fields
C24_AllNullProfileDoesNotBlock ==
    (call.fn = "on_submit"
        /\ LET data == FetchedProfile(call.args[1], call.args[2], call.args[3], call.args[4],
                                      call.args[5], call.args[6])
           IN  data.tag = "return" /\ AllNull(data.value))
        => call.result.tag = "return" /\ Placeheld(call.result.value)

\* a row with "N/A" in the four profile cells and a realm was appended
C24_PlaceholdersPersisted ==
    /\ last.op = "persist"
    /\ last.ok
    /\ LET rows == spreadsheet[worksheet].rows
       IN  rows # <<>> /\ PlaceheldRow(rows[Len(rows)]) /\ rows[Len(rows)].realm = Stormrage

\* C24 as stated, its last part: no row of the active worksheet has an empty
\* cell for class, item level, rating or highest key
C24_NoNullProfileCell ==
    \A i \in DOMAIN spreadsheet[worksheet].rows :
        LET row == spreadsheet[worksheet].rows[i]
        IN  row.cls # <<>> /\ row.ilvl # <<>> /\ row.rating # <<>> /\ row.key # <<>>

\* C25: when the Yes of the removal prompt finds no matching record, the user
\* is told that no registration was found, which is not the message sent
\* when the copy to "Removed Signups" or the deletion of the row fails
C25_NotFoundReported ==
    [][ (last'.op = "remove_yes" /\ ~last'.ok /\ ~last'.found)
            => /\ last'.msg = "no registration found"
               /\ last'.msg # "error removing" ]_vars

RemovePending == \E fl \in BagToSet(flows) : fl.pc = "RemoveConfirm"

RemoveOutcomes == {"removed", "error removing", "not removed"}

\* C26: a press of Remove Signup without a record is answered with "no
\* registration found" and opens nothing; a press with a record opens the
\* removal prompt and no sign-up step; the prompt ends, and when it ends by
\* Yes or No it ends with exactly the message of its outcome: removed or
\* failed to remove for Yes, not removed for No
C26_RemoveFlowEnds ==
    /\ [][ /\ last'.op = "remove_button"
                => flows' = flows /\ last'.msg = "no registration found"
           /\ \A fl \in BagToSet(flows') : fl.pc = "RemoveConfirm"
           /\ last'.op = "remove_yes"
                => /\ RemovePending /\ flows' = EmptyBag
                   /\ last'.msg = (IF last'.ok THEN "removed" ELSE "error removing")
           /\ last'.op = "remove_no"
                => /\ RemovePending /\ flows' = EmptyBag
                   /\ last'.msg = "not removed"
           /\ (RemovePending /\ flows' = EmptyBag /\ last'.msg # "")
                => last'.op \in {"remove_yes", "remove_no"}
         ]_vars
    /\ (RemovePending ~> flows = EmptyBag)

\* a removal confirmed with Yes failed and was reported, the prompt gone
C26_FailureReported ==
    /\ last.op = "remove_yes"
    /\ ~last.ok
    /\ last.msg = "error removing"
    /\ flows = EmptyBag

\* C26 as stated: every removal prompt that ends, ends with an outcome message
C26_EveryPromptEndsWithMessage ==
    [][ (RemovePending /\ flows' = EmptyBag) => last'.msg \in RemoveOutcomes ]_vars

\* rows changed by whole rows only: the same, one row more at the end, or
\* one row less
WholeRows(old, new) ==
    \/ new = old
    \/ Len(new) = Len(old) + 1 /\ IsPrefix(old, new)
    \/ \E i \in DOMAIN old : new = Without(old, i)

\* rows that differ in item level, rating and highest key at most
SameButProfile(old, new) ==
    /\ Len(new) = Len(old)
    /\ \A i \in DOMAIN old :
          new[i] = [old[i] EXCEPT !.ilvl = new[i].ilvl, !.rating = new[i].rating,
                                  !.key = new[i].key]

\* C27: appending, removing and rotating change every worksheet by whole
\* rows only and no field of a row that stays; the nightly update is the one
\* operation that writes into existing rows, and it writes item level,
\* rating and highest key of the active worksheet only
C27_WholeRowsButNightly ==
    [][ /\ last'.op # "update_character_data"
             => \A k \in DOMAIN spreadsheet : WholeRows(spreadsheet[k].rows, spreadsheet'[k].rows)
        /\ last'.op = "update_character_data"
             => /\ DOMAIN spreadsheet' = DOMAIN spreadsheet
                /\ \A k \in DOMAIN spreadsheet \ {worksheet} : spreadsheet'[k] = spreadsheet[k]
                /\ SameButProfile(spreadsheet[worksheet].rows, spreadsheet'[worksheet].rows)
      ]_vars

\* the nightly update has written a newer item level into a row
C27_RowUpdatedInPlace ==
    /\ last.op = "update_character_data"
    /\ \E i \in DOMAIN spreadsheet[worksheet].rows :
          spreadsheet[worksheet].rows[i].ilvl = <<"#", 485>>

\* C27 as stated: no step changes a field of a row that stays in the active
\* worksheet
C27_NoFieldChangedInPlace ==
    [][ worksheet' = worksheet
            => WholeRows(spreadsheet[worksheet].rows, spreadsheet'[worksheet].rows) ]_vars

\* C28: after a Yes of the edit prompt or of the removal prompt that reports
\* the registration as removed, the lookup of that user in the active
\* worksheet finds no record, at every day and hour
C28_RemovedMeansNotFound ==
    [][ (last'.op \in {"edit_yes", "remove_yes"} /\ last'.ok)
            => check_user_registration(spreadsheet', worksheet', last'.user) = NoRecord ]_vars

\* the same, for the users with one row in the active worksheet
C28_RemovedMeansNotFoundOneRow ==
    [][ (last'.op \in {"edit_yes", "remove_yes"} /\ last'.ok
            /\ Cardinality(RowsOf(spreadsheet[worksheet].rows, last'.user)) = 1)
            => check_user_registration(spreadsheet', worksheet', last'.user) = NoRecord ]_vars

\* the same, off the cutoff window
C28_RemovedMeansNotFoundOffWindow ==
    [][ (last'.op \in {"edit_yes", "remove_yes"} /\ last'.ok
            /\ Cardinality(RowsOf(spreadsheet[worksheet].rows, last'.user)) = 1
            /\ ~InCutoffWindow(day, hour))
            => check_user_registration(spreadsheet', worksheet', last'.user) = NoRecord ]_vars

\* C29: a sign-up whose lookup ran before the rotation and whose append runs
\* after it appends its row at the end of the worksheet the pointer refers to
\* then, the new "General Info"; the retired worksheet and every other one
\* stay as they are
C29_AppendedToNewWorksheet ==
    [][ (last'.op = "persist" /\ last'.ok /\ retired.id # 0)
            => \E fl \in BagToSet(flows) :
                  /\ fl.pc = "Persisting" /\ flows' = Close(fl)
                  /\ worksheet # retired.id
                  /\ spreadsheet[worksheet].title = <<"General Info">>
                  /\ spreadsheet'[worksheet].rows
                        = Append(spreadsheet[worksheet].rows, SignupRow(RowData(fl)))
                  /\ \A k \in DOMAIN spreadsheet \ {worksheet} : spreadsheet'[k] = spreadsheet[k]
                  /\ DOMAIN spreadsheet' = DOMAIN spreadsheet
      ]_vars

\* a row appended after the rotation, to the new worksheet
C29_PersistedAfterRotation ==
    /\ last.op = "persist"
    /\ last.ok
    /\ retired.id # 0
    /\ worksheet # retired.id
    /\ spreadsheet[worksheet].rows # <<>>
    /\ spreadsheet[retired.id].rows = <<>>

\* C30: after every run of the rotation on a Friday, also one in which the
\* rename succeeds and the creation of the new worksheet or the copy of the
\* header raises, the pointer refers to a worksheet whose title carries no
\* cutoff suffix
C30_PointerAtCanonicalName ==
    [][ (last'.op = "rotate" /\ day' % 7 = 4)
            => Len(spreadsheet'[worksheet'].title) = 1 ]_vars

\* the same for the rotations in which no call raises
C30_PointerAfterCompleteRotation ==
    [][ (last'.op = "rotate" /\ day' % 7 = 4 /\ last'.ok)
            => spreadsheet'[worksheet'].title = <<"General Info">> ]_vars

\* C31: a remove_registration that returns True deletes from the worksheet
\* it searched the first row that matches the character, the realm and the
\* user, and nothing else: every other row stays, in the order it had,
\* whatever prompts of other users are open and whatever the other users
\* appended or removed before
C31_OnlyFirstMatchDeleted ==
    [][ (IsRemove(last') /\ last'.ok)
            => LET src == last'.src
                   rows == spreadsheet[src].rows
                   kept == spreadsheet'[src].rows
                   hits == Matching(rows, last')
               IN  /\ hits # {}
                   /\ Len(kept) = Len(rows) - 1
                   /\ \A k \in DOMAIN kept :
                         kept[k] = IF k < First(hits) THEN rows[k] ELSE rows[k + 1]
      ]_vars

\* C31 reached: a removal has succeeded in a worksheet that keeps two rows
\* of the other user, for different characters, while a prompt of the other
\* user is open
C31_RemovedAmongOthers ==
    /\ last.op = "remove_yes"
    /\ last.ok
    /\ LET kept == spreadsheet[last.src].rows
       IN  /\ Len(kept) = 2
           /\ kept[1].user # last.user
           /\ kept[2].user # last.user
           /\ kept[1].char # kept[2].char
    /\ \E fl \in BagToSet(flows) : fl.pc = "RemoveConfirm" /\ fl.user # last.user

\* the step recorded in l is a Yes on a confirmation prompt
IsYes(l) == l.op \in {"edit_yes", "remove_yes"}

\* a Yes that archived a record is followed by a Yes of the same user on a
\* prompt for the same character and realm
SecondYes ==
    /\ IsYes(last)
    /\ last.found
    /\ last.fail # "append"
    /\ IsYes(last')
    /\ last'.user = last.user
    /\ last'.key = last.key

\* C32, as the code has it: the second Yes searches the worksheet again.
\* With no row left that matches the character, the realm and the user it
\* returns False and changes no worksheet; with a matching row left (the
\* deletion of the first Yes raised, or the user holds the character twice)
\* it archives and deletes that row
C32_SecondYesSearchesAgain ==
    [][ SecondYes
            => LET src == last'.src
                   rows == spreadsheet[src].rows
                   hits == Matching(rows, last')
                   archived == spreadsheet'[Archive].rows
               IN  IF hits = {}
                   THEN ~last'.ok /\ ~last'.found /\ spreadsheet' = spreadsheet
                   ELSE /\ last'.found
                        /\ last'.fail = "none"
                              => /\ last'.ok
                                 /\ Len(archived) = Len(spreadsheet[Archive].rows) + 1
                                 /\ IsCopyOf(archived[Len(archived)], rows[First(hits)])
                                 /\ spreadsheet'[src].rows = Without(rows, First(hits))
      ]_vars

\* C32 reached: a Yes has found no match for a record whose archived copy is
\* the only row of the spreadsheet
C32_SecondYesFoundNothing ==
    /\ IsYes(last)
    /\ ~last.ok
    /\ ~last.found
    /\ TotalRows(spreadsheet) = 1
    /\ Matching(spreadsheet[Archive].rows, last) # {}

\* C32, as stated: the second Yes finds no match, returns False and changes
\* no worksheet
C32_SecondYesChangesNothing ==
    [][ SecondYes => ~last'.ok /\ ~last'.found /\ spreadsheet' = spreadsheet ]_vars

\* on_submit has been called
SubmitCalled == call.fn = "on_submit"

\* the resolution on_submit makes of what the user typed
FirstResolution == sanitize_realm(Lower(call.args[1]), call.args[3])

\* the resolution get_character_data makes of the slug on_submit hands over
SecondResolution == sanitize_realm(FirstResolution.value[1], call.args[4])

\* the typed realm resolves to a slug and a display name
InputResolves ==
    /\ FirstResolution.tag = "return"
    /\ FirstResolution.value # None
    /\ FirstResolution.value[1] # None

\* C33: for every typed realm that resolves, the resolution of its slug
\* gives the same slug and the same display name, and the realm on_submit
\* keeps for the record is that display name
C33_SecondResolutionSame ==
    (SubmitCalled /\ InputResolves)
        => /\ SecondResolution = FirstResolution
           /\ call.result.tag = "return" => call.result.value.realm = FirstResolution.value[2]

\* C33 where the slug, capitalized, is a key of the table again: the second
\* resolution is an exact match and gives the same pair
C33_SameWhenSlugIsKey ==
    (/\ SubmitCalled
     /\ InputResolves
     /\ Standardize(FirstResolution.value[1]) \in DOMAIN server_lookup)
        => /\ SecondResolution = FirstResolution
           /\ call.result.tag = "return" => call.result.value.realm = FirstResolution.value[2]

\* the names of the channels numbered 10 or lower
StaticNames == {ChannelName(i) : i \in 0..10}

\* the member who ran the command has no allowed role and does not own the guild
Unauthorized(user) == user.roles \cap AllowedRoles = {} /\ ~user.is_owner

\* C34: no command creates or deletes a voice channel numbered 10 or lower;
\* add(number) deletes nothing and creates only channels "Mythic Plus i"
\* with i in 11..number that no voice channel of the guild was named
\* before; a command of a member without an allowed role who is not the
\* owner leaves the voice channels as they were
C34_StaticChannelsUntouched ==
    [][ LET before == guild.voice_channels
            after == guild'.voice_channels
            created == after \ before
            deleted == before \ after
        IN  /\ \A ch \in created \cup deleted : ch.name \notin StaticNames
            /\ call'.fn = "channels.add"
                  => /\ deleted = {}
                     /\ \A ch \in created :
                           /\ \E i \in 11..call'.args[2] : ch.name = ChannelName(i)
                           /\ \A old \in before : old.name # ch.name
            /\ (call'.fn \in {"channels.add", "channels.remove"} /\ Unauthorized(call'.args[1]))
                  => after = before /\ guild'.categories = guild.categories
      ]_vars

\* C34 reached: remove has deleted temporary channels of a category that
\* holds channel 10, and channel 10 is still there
C34_RemovedAboveTen ==
    /\ call.fn = "channels.remove"
    /\ call.result.msg = "removed"
    /\ call.result.count >= 2
    /\ VoiceChannel(ChannelName(10), KeyEvent) \in guild.voice_channels

====
